---- MODULE Spec2Model ----
(***************************************************************************)
(* A model of the world engine's spec interpreter (src/engine.js):         *)
(* the seeded generator xfnv1a, the predicate evaluator predTrue, the      *)
(* layer sampler sampleLayer and the operation executor of Generate.       *)
(*                                                                         *)
(* JavaScript values are modelled as tagged records (JSON values);         *)
(* JavaScript numbers are fixed-point integers in units of 1/Scale, so     *)
(* Num(50) is 0.5 and Num(200) is 2.  32-bit unsigned words are pairs      *)
(* <<hi, lo>> of 16-bit halves, so that no intermediate value leaves the   *)
(* signed 32-bit integers.                                                 *)
(***************************************************************************)
EXTENDS Integers, Sequences, FiniteSets, TLC

(* ------------------------------ bounds --------------------------------- *)

\* The size of the grid.  engine.js fixes width = height = 200 (line 553);
\* the model runs the same code on a small grid, and wherever the code
\* writes the literal 200 for a grid side the model writes width or height.
width == 3

height == 2

\* The longest ops list drawn from the whole op pool (lists of paints alone
\* are one longer).
MaxOps == 2

(* ------------------------------ JS values ------------------------------ *)

\* Fixed-point unit of the modelled JavaScript numbers.
Scale == 10 * 10

Undef == [t |-> "undef"]
Null == [t |-> "null"]
Bool(b) == [t |-> "bool", b |-> b]
Num(n) == [t |-> "num", n |-> n]
Str(s) == [t |-> "str", s |-> s]
Arr(a) == [t |-> "arr", a |-> a]
Obj(o) == [t |-> "obj", o |-> o]

\* A whole number as a JavaScript number.
Whole(i) == Num(i * Scale)

\* v.k : property k of an object; undefined when absent or on a primitive.
Get(v, k) == IF v.t = "obj" /\ k \in DOMAIN v.o THEN v.o[k] ELSE Undef

\* a[i] for the 0-based index i of a JavaScript array.
At(v, i) == IF v.t = "arr" /\ i + 1 \in DOMAIN v.a THEN v.a[i + 1] ELSE Undef

\* !!v
Truthy(v) ==
  CASE v.t = "undef" -> FALSE
    [] v.t = "null" -> FALSE
    [] v.t = "bool" -> v.b
    [] v.t = "num" -> v.n # 0
    [] v.t = "str" -> v.s # ""
    [] OTHER -> TRUE

\* v == null
Nullish(v) == v.t \in {"undef", "null"}

\* typeof v === 'object' (null included, as in JavaScript)
TypeofObject(v) == v.t \in {"null", "arr", "obj"}

\* Number.isFinite(v): true of numbers only, without coercion.
IsFiniteNum(v) == v.t = "num"

\* Number(v) is NaN.  The strings of the model are never numeric literals;
\* an array converts through its string: [] is 0 and [n] is n.
NumberIsNaN(v) ==
  CASE v.t = "undef" -> TRUE
    [] v.t = "str" -> v.s # ""
    [] v.t = "obj" -> TRUE
    [] v.t = "arr" -> ~(v.a = <<>> \/ (Len(v.a) = 1 /\ v.a[1].t \in {"num", "null", "undef"}))
    [] OTHER -> FALSE

\* Number(v) in units of 1/Scale, where it is not NaN.
NumberOf(v) ==
  CASE v.t = "num" -> v.n
    [] v.t = "bool" -> IF v.b THEN Scale ELSE 0
    [] v.t = "arr" -> IF Len(v.a) = 1 /\ v.a[1].t = "num" THEN v.a[1].n ELSE 0
    [] OTHER -> 0

\* Number(v) || 0
NumberOr0(v) == IF NumberIsNaN(v) THEN 0 ELSE NumberOf(v)

Min2(a, b) == IF a < b THEN a ELSE b
Max2(a, b) == IF a > b THEN a ELSE b

\* NaN as a value of arithmetic: a number no computation of the model
\* yields otherwise.
NaN == -(2 ^ 30)

\* clamp01 on fixed-point numbers: x < 0 ? 0 : x > 1 ? 1 : x, both tests
\* false of NaN.
clamp01(x) == IF x = NaN THEN x ELSE IF x < 0 THEN 0 ELSE IF x > Scale THEN Scale ELSE x

\* safeInt(n, def, min, max): the result is a whole number (not scaled).
safeInt(n, def, min, max) ==
  LET x == IF IsFiniteNum(n) THEN n.n \div Scale ELSE def
  IN Max2(min, Min2(max, x))

(* --------------------------- 32-bit words ------------------------------ *)

\* 32-bit words are pairs <<high half, low half>> of 16-bit naturals.
Half == 2 ^ 16

Pow2(k) == 2 ^ k

\* Bit i of a ^ b, in place.
XorBit(a, b, i) == (((a \div Pow2(i)) + (b \div Pow2(i))) % 2) * Pow2(i)

\* a ^ b on bytes.
ByteXor(a, b) ==
  XorBit(a, b, 0) + XorBit(a, b, 1) + XorBit(a, b, 2) + XorBit(a, b, 3)
  + XorBit(a, b, 4) + XorBit(a, b, 5) + XorBit(a, b, 6) + XorBit(a, b, 7)

\* a ^ b on 16-bit naturals, byte by byte (a byte of a is kept where the
\* byte of b is zero).
BitXor(a, b) ==
  IF b = 0 THEN a
  ELSE IF b < 256 THEN ((a \div 256) * 256) + ByteXor(a % 256, b)
  ELSE (ByteXor(a \div 256, b \div 256) * 256) + ByteXor(a % 256, b % 256)

\* (a + b) >>> 0
WAdd(a, b) ==
  LET lo == a[2] + b[2]
  IN <<(a[1] + b[1] + (lo \div Half)) % Half, lo % Half>>

\* (a << k) >>> 0, for 0 < k < 16
WShl(a, k) ==
  LET lo == a[2] * Pow2(k)
  IN <<(((a[1] * Pow2(k)) % Half) + (lo \div Half)) % Half, lo % Half>>

\* a >>> k, for 0 < k < 32
WShr(a, k) ==
  IF k < 16
  THEN <<a[1] \div Pow2(k), (a[2] \div Pow2(k)) + ((a[1] % Pow2(k)) * Pow2(16 - k))>>
  ELSE <<0, a[1] \div Pow2(k - 16)>>

\* (a ^ b) >>> 0
WXor(a, b) == <<BitXor(a[1], b[1]), BitXor(a[2], b[2])>>

\* Math.imul(a, 16777619) >>> 0, with 16777619 = 2^24 + 403
WMulPrime(a) ==
  LET lo == a[2] * 403
      lowPart == <<((a[1] * 403) + (lo \div Half)) % Half, lo % Half>>
  IN WAdd(lowPart, <<(a[2] % 256) * 256, 0>>)

\* 2166136261 >>> 0 = 0x811C9DC5
FnvOffset == <<33052, 40389>>

RECURSIVE FnvFold(_, _, _)
\* The loop of xfnv1a over the char codes str[i..].
\* (The next state is bound as a value before the loop goes on, so that
\* the evaluation does not nest one pending step per character.)
FnvFold(h, str, i) ==
  IF i > Len(str) THEN h
  ELSE CHOOSE r \in {FnvFold(n, str, i + 1) :
                       n \in {WMulPrime(WXor(h, <<0, str[i]>>))}} : TRUE

\* The state h of the generator xfnv1a(str) returns, before its first draw.
xfnv1a(str) == FnvFold(FnvOffset, str, 1)

\* One call of the generator: the state after the mixing step.  The value
\* drawn is that state divided by 2^32.
\* h += h << k and h ^= h >>> k
MixAdd(h, k) == WAdd(h, WShl(h, k))
MixXor(h, k) == WXor(h, WShr(h, k))
rngStep(h) == MixAdd(MixXor(MixAdd(MixXor(MixAdd(h, 13), 7), 3), 17), 5)

\* Math.round in place of Math.floor.
DrawRound(h, n) == ((h[1] * n) + ((h[2] * n) \div Half) + (Half \div 2)) \div Half

\* Math.floor(d * n) for the draw d = h / 2^32 and a whole n >= 0.
DrawFloor(h, n) == ((h[1] * n) + ((h[2] * n) \div Half)) \div Half

\* d * s <= c, for the draw d = h / 2^32 and naturals s, c: with
\* h * s = q * 2^16 + r, that is q < c * 2^16, or q = c * 2^16 and r = 0.
DrawTimesLeq(h, s, c) ==
  \/ (h[1] * s) + ((h[2] * s) \div Half) < c * Half
  \/ /\ (h[1] * s) + ((h[2] * s) \div Half) = c * Half
     /\ (h[2] * s) % Half = 0

\* d < p / Scale, for the draw d = h / 2^32 and a fixed-point p in [0, Scale].
DrawLess(h, p) == (h[1] * Scale) + ((h[2] * Scale) \div Half) < p * Half

(* ------------------------------ strings -------------------------------- *)

\* The UTF-16 code units of the strings the model hashes.
StrCodes(s) ==
  CASE s = "" -> <<>>
    [] s = "a" -> <<97>>
    [] s = "b" -> <<98>>
    [] s = "s" -> <<115>>
    [] s = "k" -> <<107>>
    [] s = "scatter" -> <<115, 99, 97, 116, 116, 101, 114>>
    [] s = "bg0" -> <<98, 103, 48>>
    [] s = "bg1" -> <<98, 103, 49>>
    [] s = "bg2" -> <<98, 103, 50>>
    [] s = "bg3" -> <<98, 103, 51>>
    [] s = "bg4" -> <<98, 103, 52>>
    [] s = "bg5" -> <<98, 103, 53>>
    [] s = "fg0" -> <<102, 103, 48>>
    [] s = "fg1" -> <<102, 103, 49>>
    [] s = "fg2" -> <<102, 103, 50>>
    [] s = "fg3" -> <<102, 103, 51>>
    [] s = "n0" -> <<110, 48>>
    [] s = "n1" -> <<110, 49>>
    [] s = "mask" -> <<109, 97, 115, 107>>
    [] s = "g" -> <<103>>
    [] s = "w" -> <<119>>
    [] s = "r" -> <<114>>
    [] s = "t" -> <<116>>
    [] s = "zz" -> <<122, 122>>
    [] s = "A" -> <<65>>
    [] s = "aB" -> <<97, 66>>
    [] s = "_a" -> <<95, 97>>
    [] s = "a-b" -> <<97, 45, 98>>
    [] s = "a_b0" -> <<97, 95, 98, 48>>
    [] s = "0" -> <<48>>
    [] s = "abcdefghijklmnop" -> <<97, 98, 99, 100, 101, 102, 103, 104, 105, 106, 107, 108, 109, 110, 111, 112>>
    [] s = "abcdefghijklmnopq" -> <<97, 98, 99, 100, 101, 102, 103, 104, 105, 106, 107, 108, 109, 110, 111, 112, 113>>
    [] s = "a b" -> <<97, 32, 98>>
    [] s = "*" -> <<42>>
    [] s = "#101010" -> <<35, 49, 48, 49, 48, 49, 48>>
    [] s = "#f0f0f0" -> <<35, 102, 48, 102, 48, 102, 48>>
    [] s = "#12345g" -> <<35, 49, 50, 51, 52, 53, 103>>
    [] s = "red" -> <<114, 101, 100>>
    [] s = "#FFF" -> <<35, 70, 70, 70>>

RECURSIVE Digits(_)
\* String(n) for a natural n, as code units.
Digits(n) == IF n < 10 THEN <<48 + n>> ELSE Digits(n \div 10) \o <<48 + (n % 10)>>

\* '|chance|', '|roads|', '|scatter|', '|' and ','
PipeChance == <<124, 99, 104, 97, 110, 99, 101, 124>>
PipeRoads == <<124, 114, 111, 97, 100, 115, 124>>
PipeScatter == <<124, 115, 99, 97, 116, 116, 101, 114, 124>>
Pipe == <<124>>
Comma == <<44>>

\* String(v || dflt).  A truthy value that is no string becomes "#other",
\* which stands for its JavaScript rendering ("5", "true", ...).
StringOr(v, dflt) ==
  IF ~Truthy(v) THEN dflt ELSE IF v.t = "str" THEN v.s ELSE "#other"

\* The elements array destructuring takes from a string: its characters.
\* The strings the model destructures have one character.
StrChars(s) == CASE s \in {"a", "b", "s", "k"} -> <<Str(s)>>

\* The property key a value is coerced to in layers[name].  Layer names of
\* the model are never "undefined", "null", "true", "false" or "#other".
KeyOf(v) ==
  CASE v.t = "str" -> v.s
    [] v.t = "undef" -> "undefined"
    [] v.t = "null" -> "null"
    [] v.t = "bool" -> IF v.b THEN "true" ELSE "false"
    [] OTHER -> "#other"

(* ------------------------------- shapes -------------------------------- *)

\* safeNum(n, def, min, max) on fixed-point numbers; def, min, max scaled.
safeNum(n, def, min, max) ==
  LET x == IF IsFiniteNum(n) THEN n.n ELSE def
  IN Max2(min, Min2(max, x))

\* 1e9, the clamp of shape coordinates
Billion == 1000000000

\* A box test that takes in the far edges.
inRectClosed(x, y, rx, ry, rw, rh) == x >= rx /\ x <= rx + rw /\ y >= ry /\ y <= ry + rh

\* x >= rx && x < rx + rw && y >= ry && y < ry + rh
inRect(x, y, rx, ry, rw, rh) == x >= rx /\ x < rx + rw /\ y >= ry /\ y < ry + rh

\* shapeContains(shape, x, y) for whole x, y.  Modelled kinds: rect,
\* roundRect without rounding, circle, and every unknown kind; the shape
\* pools of the model hold no rounded roundRect, polygon or line.
shapeContains(shape, x, y) ==
  IF ~(Truthy(shape) /\ TypeofObject(shape)) THEN FALSE
  ELSE LET k == Get(shape, "kind")
           isRect == k = Str("rect")
           isRound == k = Str("roundRect")
       IN IF isRect \/ isRound
          THEN LET rx == safeInt(Get(shape, "x"), 0, -Billion, Billion)
                   ry == safeInt(Get(shape, "y"), 0, -Billion, Billion)
                   rw == safeInt(Get(shape, "w"), 0, 0, Billion)
                   rh == safeInt(Get(shape, "h"), 0, 0, Billion)
               IN IF rw <= 0 \/ rh <= 0 THEN FALSE
                  ELSE inRect(x, y, rx, ry, rw, rh)
          ELSE IF k = Str("circle")
          THEN LET cx == safeNum(Get(shape, "cx"), 0, -Billion, Billion)
                   cy == safeNum(Get(shape, "cy"), 0, -Billion, Billion)
                   r == safeNum(Get(shape, "r"), 0, 0, Billion)
                   dx == x * Scale - cx
                   dy == y * Scale - cy
               IN dx * dx + dy * dy <= r * r
          ELSE FALSE

(* ---------------------------- layer sampler ---------------------------- *)

\* 0.5 in fixed point: the default of lerp and threshold.
HalfUnit == Scale \div 2

\* Number(t) || 0.5
NumberOrHalf(t) ==
  IF NumberIsNaN(t) \/ NumberOf(t) = 0 THEN HalfUnit ELSE NumberOf(t)

\* v, or NaN when an operand is NaN.
OrNaN(a, b, v) == IF a = NaN \/ b = NaN THEN NaN ELSE v

\* An edge of smoothstep: Array.isArray(t) ? Number(t[i]) : def
edgeOf(t, i, def) ==
  IF t.t # "arr" THEN def ELSE IF NumberIsNaN(At(t, i)) THEN NaN ELSE NumberOf(At(t, i))

\* clamp01((a - e0) / ((e1 - e0) || 1e-9)); the quotient by 1e-9 is beyond
\* 1 when a > e0 and at most 0 otherwise.
smoothX(a, e0, e1) ==
  IF a = NaN \/ e0 = NaN \/ e1 = NaN THEN NaN
  ELSE IF e1 = e0 THEN (IF a > e0 THEN Scale ELSE 0)
  ELSE IF e1 > e0 THEN clamp01(((a - e0) * Scale) \div (e1 - e0))
  ELSE clamp01(((e0 - a) * Scale) \div (e0 - e1))

\* x * x * (3 - 2 * x)
smoothPoly(x) == IF x = NaN THEN NaN ELSE (x * x * (3 * Scale - 2 * x)) \div (Scale * Scale)

\* combine(op, a, b, t).  Products and quotients are rounded down to the
\* fixed-point unit.
combine(op, a, b, t) ==
  CASE op = "add" -> clamp01(OrNaN(a, b, a + b))
    [] op = "sub" -> clamp01(OrNaN(a, b, a - b))
    [] op = "mul" -> clamp01(OrNaN(a, b, (a * b) \div Scale))
    [] op = "min" -> OrNaN(a, b, Min2(a, b))
    [] op = "max" -> OrNaN(a, b, Max2(a, b))
    [] op = "lerp" -> OrNaN(a, b, a + (((b - a) * clamp01(NumberOrHalf(t))) \div Scale))
    [] op = "threshold" -> IF a # NaN /\ a >= NumberOrHalf(t) THEN Scale ELSE 0
    [] op = "smoothstep" -> smoothPoly(smoothX(a, edgeOf(t, 0, (2 * Scale) \div 5), edgeOf(t, 1, (3 * Scale) \div 5)))
    [] OTHER -> a

\* A sampler that answers 0 for a key that is still in progress.
CycleIgnored(vis) == [err |-> "", v |-> 0, vis |-> vis]

\* What sampleLayer does on re-entering a key that is still in progress:
\* throw new Error('Layer cycle detected ...').
CycleDetected(vis) == [err |-> "LayerCycle", v |-> 0, vis |-> vis]

\* A sampler that answers 0 for a name layers has no entry for.
UnknownLayerAsZero(vis) == [err |-> "", v |-> 0, vis |-> vis]

\* if (!def) throw new Error('Unknown layer ...')
UnknownLayerThrown(vis) == [err |-> "UnknownLayer", v |-> 0, vis |-> vis]

(* noise layers *)

\* '|layer|' and '|layer2|'
PipeLayer == <<124, 108, 97, 121, 101, 114, 124>>
PipeLayer2 == <<124, 108, 97, 121, 101, 114, 50, 124>>

\* layerOffset(seedKey) of the sampler made for seed: the offsets in noise
\* space, each the first draw of its own generator times 20000, floored.
layerOffset(seed, key) ==
  [ox |-> DrawFloor(rngStep(xfnv1a(StrCodes(seed) \o PipeLayer \o StrCodes(key))), 20000),
   oy |-> DrawFloor(rngStep(xfnv1a(StrCodes(seed) \o PipeLayer2 \o StrCodes(key))), 20000)]

\* noise2D(x, y) of makeValueNoise2D(xfnv1a(seed)), x and y in fixed point.
\* The code shuffles a table of 0 .. 255 with the generator and interpolates
\* between the table's values at the four lattice points around (x, y),
\* each within [0, 1].  The model keeps what the value depends on (the seed
\* and the lattice cell, modulo 256) and its range, not the table or the
\* interpolation: the value is a draw of the generator seeded with the seed
\* and the lattice cell.
baseNoise(seed, x, y) ==
  DrawFloor(rngStep(xfnv1a(StrCodes(seed) \o <<(x \div Scale) % 256, (y \div Scale) % 256>>)),
            Scale + 1)

RECURSIVE octaveSum(_, _, _, _, _, _, _, _)
\* The loop of octaveNoise from octave i on: sum and norm.
octaveSum(seed, x, y, i, octaves, persistence, amp, freq) ==
  IF i >= octaves THEN [sum |-> 0, norm |-> 0]
  ELSE LET rest == octaveSum(seed, x, y, i + 1, octaves, persistence,
                             (amp * persistence) \div Scale, freq * 2)
       IN [sum |-> ((baseNoise(seed, x * freq, y * freq) * amp) \div Scale) + rest.sum,
           norm |-> amp + rest.norm]

\* octaveNoise(noiseFn, x, y, octaves, persistence): sum / (norm || 1)
octaveNoise(seed, x, y, octaves, persistence) ==
  LET s == octaveSum(seed, x, y, 0, octaves, persistence, Scale, 1)
  IN IF s.norm = 0 THEN s.sum ELSE (s.sum * Scale) \div s.norm

RECURSIVE isqrtIn(_, _, _)
\* The largest k of lo .. hi with k * k <= n.
isqrtIn(n, lo, hi) ==
  IF lo >= hi THEN lo
  ELSE IF ((lo + hi + 1) \div 2) * ((lo + hi + 1) \div 2) <= n
  THEN isqrtIn(n, (lo + hi + 1) \div 2, hi)
  ELSE isqrtIn(n, lo, ((lo + hi + 1) \div 2) - 1)

\* Math.hypot(dx, dy) in fixed point, rounded down to a tenth of a unit
\* (the squares of the fixed-point sides do not fit the integers of the
\* checker beyond 327 units).
hypot(dx, dy) ==
  10 * isqrtIn(((dx \div 10) * (dx \div 10)) + ((dy \div 10) * (dy \div 10)), 0, 46340)

\* The fbm layer def at (x, y).  A scale below the fixed-point unit is
\* rounded to it.
sampleFbm(def, seed, name, x, y) ==
  LET scale == safeNum(Get(def, "scale"), 1, 0, Scale)
      octaves == safeInt(Get(def, "octaves"), 3, 1, 8)
      persistence == safeNum(Get(def, "persistence"), HalfUnit, 5, 95)
      off == layerOffset(seed, StringOr(Get(def, "seed"), name))
  IN octaveNoise(seed, (x + off.ox) * scale, (y + off.oy) * scale, octaves, persistence)

\* The valueNoise layer def at (x, y).
sampleValueNoise(def, seed, name, x, y) ==
  LET scale == safeNum(Get(def, "scale"), 1, 0, Scale)
      off == layerOffset(seed, StringOr(Get(def, "seed"), name))
  IN baseNoise(seed, (x + off.ox) * scale, (y + off.oy) * scale)

\* The radialGradient layer def at (x, y):
\* 1 - Math.min(1, Math.hypot(x - cx, y - cy) / r), inverted when asked.
sampleRadial(def, x, y) ==
  LET cx == safeNum(Get(def, "cx"), (width * Scale) \div 2, -Billion, Billion)
      cy == safeNum(Get(def, "cy"), (height * Scale) \div 2, -Billion, Billion)
      r == safeNum(Get(def, "r"), (Min2(width, height) * Scale) \div 2, Scale, Billion)
      v == Scale - Min2(Scale, (hypot((x * Scale) - cx, (y * Scale) - cy) * Scale) \div r)
  IN IF Truthy(Get(def, "invert")) THEN Scale - v ELSE v

\* A sampler that leaves the key of a finished sample in the set.
leaveKept(vis, key) == vis

\* visiting.delete(key)
leave(vis, key) == vis \ {key}

RECURSIVE sampleLayer(_, _, _, _, _, _)
\* sampleLayer(name, x, y) on the sampler made for seed, whose in-progress
\* set is vis.
\* The result is the value (err = "") or the error thrown, with the
\* in-progress set as the call leaves it.
sampleLayer(layers, seed, name, x, y, vis) ==
  LET def == Get(layers, name)
      key == <<name, x, y>>
  IN IF ~Truthy(def) THEN UnknownLayerThrown(vis)
     ELSE IF Get(def, "type") = Str("const")
     THEN [err |-> "", v |-> clamp01(NumberOr0(Get(def, "value"))), vis |-> vis]
     ELSE IF key \in vis THEN CycleDetected(vis)
     ELSE LET vis1 == vis \cup {key}
              ty == Get(def, "type")
          IN IF ty = Str("fbm")
             THEN [err |-> "", v |-> clamp01(sampleFbm(def, seed, name, x, y)),
                   vis |-> leave(vis1, key)]
             ELSE IF ty = Str("valueNoise")
             THEN [err |-> "", v |-> clamp01(sampleValueNoise(def, seed, name, x, y)),
                   vis |-> leave(vis1, key)]
             ELSE IF ty = Str("radialGradient")
             THEN [err |-> "", v |-> clamp01(sampleRadial(def, x, y)), vis |-> leave(vis1, key)]
             ELSE IF ty = Str("shape")
             THEN [err |-> "",
                   v |-> clamp01(IF shapeContains(Get(def, "shape"), x, y) THEN Scale ELSE 0),
                   vis |-> leave(vis1, key)]
             ELSE IF ty = Str("combine")
             THEN LET op == StringOr(Get(def, "op"), "mul")
                      da == Get(def, "a")
                      db == Get(def, "b")
                      ra == IF Truthy(Get(da, "ref"))
                            THEN sampleLayer(layers, seed, KeyOf(Get(da, "ref")), x, y, vis1)
                            ELSE [err |-> "", v |-> clamp01(NumberOr0(Get(da, "const"))), vis |-> vis1]
                  IN IF ra.err # "" THEN ra
                     ELSE LET rb == IF Truthy(Get(db, "ref"))
                                    THEN sampleLayer(layers, seed, KeyOf(Get(db, "ref")), x, y, ra.vis)
                                    ELSE [err |-> "", v |-> clamp01(NumberOr0(Get(db, "const"))), vis |-> ra.vis]
                          IN IF rb.err # "" THEN rb
                             ELSE [err |-> "",
                                   v |-> clamp01(combine(op, ra.v, rb.v, Get(def, "t"))),
                                   vis |-> leave(rb.vis, key)]
             ELSE [err |-> "UnsupportedLayerType", v |-> 0, vis |-> leave(vis1, key)]

(* ----------------------------- predicates ------------------------------ *)

\* const [a, b, c] = v: whether v is iterable (else a TypeError is thrown)
\* and the elements it yields.
Iterable(v) == v.t \in {"arr", "str"}
Elems(v) == IF v.t = "arr" THEN v.a ELSE StrChars(v.s)
ElemAt(v, i) == IF i <= Len(Elems(v)) THEN Elems(v)[i] ELSE Undef

\* x > t, x < t, x >= t, x <= t for a number x and any value t: t is
\* converted to a number and every comparison with NaN is false.
JsGt(x, t) == x # NaN /\ ~NumberIsNaN(t) /\ x > NumberOf(t)
JsLt(x, t) == x # NaN /\ ~NumberIsNaN(t) /\ x < NumberOf(t)
JsGe(x, t) == x # NaN /\ ~NumberIsNaN(t) /\ x >= NumberOf(t)
JsLe(x, t) == x # NaN /\ ~NumberIsNaN(t) /\ x <= NumberOf(t)

\* The string the chance predicate hashes:
\* ctx.seed + '|chance|' + (pred.seed || '') + '|' + x + ',' + y
ChanceKey(seed, pred, x, y) ==
  StrCodes(seed) \o PipeChance \o StrCodes(StringOr(Get(pred, "seed"), ""))
    \o Pipe \o Digits(x) \o Comma \o Digits(y)

\* A chance predicate whose generator is seeded with the cell's row alone,
\* so that the cells of a row share one draw.
chancePerRow(seed, pred, x, y) ==
  DrawLess(rngStep(xfnv1a(ChanceKey(seed, pred, 0, y))),
           clamp01(NumberOr0(Get(pred, "chance"))))

\* The chance predicate: the first draw of a fresh generator against the
\* clamped probability.
chanceTrue(seed, pred, x, y) ==
  DrawLess(rngStep(xfnv1a(ChanceKey(seed, pred, x, y))),
           clamp01(NumberOr0(Get(pred, "chance"))))

\* What predTrue answers for a present value: if (!pred) return true.
AbsentPred(pred) == ~Truthy(pred)

PT(b, vis) == [r |-> IF b THEN "T" ELSE "F", vis |-> vis]

\* The comparison a layer predicate makes on the sampled value v.
layerCompare(kind, v, a) ==
  CASE kind = "layerGt" -> JsGt(v, ElemAt(a, 2))
    [] kind = "layerLt" -> JsLt(v, ElemAt(a, 2))
    [] kind = "layerBetween" -> JsGe(v, ElemAt(a, 2)) /\ JsLe(v, ElemAt(a, 3))

\* The answer of a layer predicate, s being what sampleLayer returned.
layerAnswer(kind, s, a) ==
  IF s.err # "" THEN [r |-> s.err, vis |-> s.vis]
  ELSE PT(layerCompare(kind, s.v, a), s.vis)

\* layerGt, layerLt, layerBetween: the value a of the key is destructured
\* (a TypeError when it is not iterable), the layer named by its first
\* element is sampled and compared.
layerPred(kind, a, x, y, layers, seed, vis) ==
  IF ~Iterable(a) THEN [r |-> "TypeError", vis |-> vis]
  ELSE layerAnswer(kind, sampleLayer(layers, seed, KeyOf(ElemAt(a, 1)), x, y, vis), a)

\* !predTrue(...), n being what the inner call returned.
negate(n) ==
  IF n.r = "T" THEN PT(FALSE, n.vis) ELSE IF n.r = "F" THEN PT(TRUE, n.vis) ELSE n

RECURSIVE predTrue(_, _, _, _, _, _)
RECURSIVE predEvery(_, _, _, _, _, _, _)
RECURSIVE predSome(_, _, _, _, _, _, _)

\* predTrue(pred, x, y, ctx) with ctx = {sampleLayer over layers, seed}.
\* r is "T", "F" or the error thrown; vis is the sampler's in-progress set
\* as the call leaves it.
predTrue(pred, x, y, layers, seed, vis) ==
  IF AbsentPred(pred) THEN PT(TRUE, vis)
  ELSE IF Truthy(Get(pred, "all"))
  THEN IF Get(pred, "all").t = "arr"
       THEN predEvery(Get(pred, "all").a, 1, x, y, layers, seed, vis)
       ELSE PT(FALSE, vis)
  ELSE IF Truthy(Get(pred, "any"))
  THEN IF Get(pred, "any").t = "arr"
       THEN predSome(Get(pred, "any").a, 1, x, y, layers, seed, vis)
       ELSE PT(FALSE, vis)
  ELSE IF Truthy(Get(pred, "not"))
  THEN negate(predTrue(Get(pred, "not"), x, y, layers, seed, vis))
  ELSE IF Truthy(Get(pred, "layerGt"))
  THEN layerPred("layerGt", Get(pred, "layerGt"), x, y, layers, seed, vis)
  ELSE IF Truthy(Get(pred, "layerLt"))
  THEN layerPred("layerLt", Get(pred, "layerLt"), x, y, layers, seed, vis)
  ELSE IF Truthy(Get(pred, "layerBetween"))
  THEN layerPred("layerBetween", Get(pred, "layerBetween"), x, y, layers, seed, vis)
  ELSE IF Truthy(Get(pred, "shape"))
  THEN PT(shapeContains(Get(pred, "shape"), x, y), vis)
  ELSE IF ~Nullish(Get(pred, "chance"))
  THEN PT(chanceTrue(seed, pred, x, y), vis)
  ELSE PT(FALSE, vis)

\* The rest of every / some after element i answered e.
everyNext(e, ps, i, x, y, layers, seed) ==
  IF e.r = "T" THEN predEvery(ps, i + 1, x, y, layers, seed, e.vis) ELSE e

someNext(e, ps, i, x, y, layers, seed) ==
  IF e.r = "F" THEN predSome(ps, i + 1, x, y, layers, seed, e.vis) ELSE e

\* pred.all.every(p => predTrue(p, ...)) from element i on.
predEvery(ps, i, x, y, layers, seed, vis) ==
  IF i > Len(ps) THEN PT(TRUE, vis)
  ELSE everyNext(predTrue(ps[i], x, y, layers, seed, vis), ps, i, x, y, layers, seed)

\* pred.any.some(p => predTrue(p, ...)) from element i on.
predSome(ps, i, x, y, layers, seed, vis) ==
  IF i > Len(ps) THEN PT(FALSE, vis)
  ELSE someNext(predTrue(ps[i], x, y, layers, seed, vis), ps, i, x, y, layers, seed)

(* ------------------------- operation executor -------------------------- *)

Cells == (0 .. width - 1) \X (0 .. height - 1)

\* The position of a cell in the row-major order of the op loops.
Ord(c) == c[2] * width + c[1]

\* a % b of JavaScript (the sign of the result is the sign of a), b > 0.
JsRem(a, b) == IF a >= 0 THEN a % b ELSE -((-a) % b)

\* o with property k set to v (o an object).
ObjSet(o, k, v) ==
  Obj([x \in DOMAIN o.o \cup {k} |-> IF x = k THEN v ELSE o.o[x]])

\* The id set uniqIds returns for a valid tile list.
uniqIds(list) == {list.a[i].o.id.s : i \in DOMAIN list.a}

\* A requireBg that checks the type of the id and not the palette.
requireBgAnyString(id, bgIds) == id.t = "str"

\* requireBg(id, ctx) passes.
requireBg(id, bgIds) == id.t = "str" /\ id.s \in bgIds

\* requireFgOrNull(id, ctx) passes.
requireFgOrNull(id, fgIds) == id.t = "null" \/ (id.t = "str" /\ id.s \in fgIds)

\* Tile checks of a paint op that leave out the foreground id.
paintRefsBgOnly(op, bgIds, fgIds) ==
  ~Nullish(Get(op, "bg")) => requireBg(Get(op, "bg"), bgIds)

\* The tile checks of a paint op pass.
paintRefsOk(op, bgIds, fgIds) ==
  /\ ~Nullish(Get(op, "bg")) => requireBg(Get(op, "bg"), bgIds)
  /\ Get(op, "fg") # Undef => requireFgOrNull(Get(op, "fg"), fgIds)

\* predTrue(op.where, x, y, ...) at every cell, each call starting from the
\* sampler state vis.
GateAt(where, layers, seed, vis) ==
  [c \in Cells |-> predTrue(where, c[1], c[2], layers, seed, vis)]

\* The number of cells a loop over the grid completes before a gate throws
\* (all of them when none throws).
CellsDone(R) ==
  IF \A c \in Cells : R[c].r \in {"T", "F"} THEN width * height
  ELSE CHOOSE n \in 0 .. width * height - 1 :
         /\ \E c \in Cells : Ord(c) = n /\ R[c].r \notin {"T", "F"}
         /\ \A c \in Cells : Ord(c) < n => R[c].r \in {"T", "F"}

\* A paint whose gate test is inverted: it writes where the gate fails.
paintBgInverted(op, R, n, bg) ==
  [c \in Cells |->
     IF Ord(c) < n /\ R[c].r = "F" /\ ~Nullish(Get(op, "bg"))
     THEN Get(op, "bg") ELSE bg[c]]

\* The grids a paint op leaves, the loop having completed n cells.
paintBg(op, R, n, bg) ==
  [c \in Cells |->
     IF Ord(c) < n /\ R[c].r = "T" /\ ~Nullish(Get(op, "bg"))
     THEN Get(op, "bg") ELSE bg[c]]

\* A paint that writes a foreground only when op.fg is truthy: an explicit
\* null no longer clears.
paintFgTruthy(op, R, n, fg) ==
  [c \in Cells |->
     IF Ord(c) < n /\ R[c].r = "T" /\ Truthy(Get(op, "fg"))
     THEN Get(op, "fg") ELSE fg[c]]

paintFg(op, R, n, fg) ==
  [c \in Cells |->
     IF Ord(c) < n /\ R[c].r = "T" /\ Get(op, "fg") # Undef
     THEN Get(op, "fg") ELSE fg[c]]

\* The parameters roads.grid reads from its op.
roadsOrigin(op) ==
  IF Get(op, "origin").t = "arr" THEN Get(op, "origin") ELSE Arr(<<Whole(0), Whole(0)>>)
roadsOx(op) == safeInt(At(roadsOrigin(op), 0), 0, -Billion, Billion)
roadsOy(op) == safeInt(At(roadsOrigin(op), 1), 0, -Billion, Billion)
roadsSpacing(op) == safeInt(Get(op, "spacing"), 20, 2, 200)
roadsThickness(op) == safeInt(Get(op, "thickness"), 2, 1, 20)
roadsInter(op) == Get(op, "fgAtIntersections")
roadsHasInter(op) == Truthy(roadsInter(op)) /\ TypeofObject(roadsInter(op))
roadsInterId(op) ==
  IF roadsHasInter(op) /\ ~Nullish(Get(roadsInter(op), "id"))
  THEN Get(roadsInter(op), "id") ELSE Null
roadsInterP(op) ==
  IF roadsHasInter(op) THEN clamp01(NumberOr0(Get(roadsInter(op), "p"))) ELSE 0
roadsInterSeed(op) ==
  IF roadsHasInter(op) THEN StringOr(Get(roadsInter(op), "seed"), "") ELSE ""

\* The tile checks of a roads.grid op pass.
roadsRefsOk(op, bgIds, fgIds) ==
  /\ requireBg(Get(op, "bg"), bgIds)
  /\ roadsHasInter(op) => requireFgOrNull(roadsInterId(op), fgIds)

\* gx, gy without the wrap: the remainder keeps the sign of x - ox.
roadsGSigned(v, o, spacing) == JsRem(v - o, spacing)

\* gx, gy: ((x - ox) % spacing + spacing) % spacing
roadsG(v, o, spacing) == JsRem(JsRem(v - o, spacing) + spacing, spacing)
onV(op, c) == roadsG(c[1], roadsOx(op), roadsSpacing(op)) < roadsThickness(op)
onH(op, c) == roadsG(c[2], roadsOy(op), roadsSpacing(op)) < roadsThickness(op)

\* The draw that decides the marker of an intersection cell:
\* xfnv1a(reference + '|roads|' + interSeed + '|' + x + ',' + y)() < interP
roadsMarker(op, seed, c) ==
  DrawLess(rngStep(xfnv1a(StrCodes(seed) \o PipeRoads \o StrCodes(roadsInterSeed(op))
                          \o Pipe \o Digits(c[1]) \o Comma \o Digits(c[2]))),
           roadsInterP(op))

roadsBg(op, R, n, bg) ==
  [c \in Cells |->
     IF Ord(c) < n /\ R[c].r = "T" /\ (onV(op, c) \/ onH(op, c))
     THEN Get(op, "bg") ELSE bg[c]]

roadsFg(op, seed, R, n, fg) ==
  [c \in Cells |->
     IF /\ Ord(c) < n /\ R[c].r = "T" /\ onV(op, c) /\ onH(op, c)
        /\ Truthy(roadsInterId(op)) /\ roadsInterP(op) > 0
        /\ roadsMarker(op, seed, c)
     THEN roadsInterId(op) ELSE fg[c]]

(* stamp.scatter *)

scatterSeed(op) == StringOr(Get(op, "seed"), "scatter")
\* A count taken as the op states it, 200 when it states none.
scatterCountStated(op) == safeInt(Get(op, "count"), 200, -1, 200000)

scatterCount(op) == safeInt(Get(op, "count"), 200, 1, 200000)
scatterMaxAttempts(op) ==
  safeInt(Get(op, "maxAttempts"), scatterCount(op) * 10, 1, 400000)
scatterPrefabs(op) ==
  IF Get(op, "prefabs").t = "arr" THEN Get(op, "prefabs").a ELSE <<>>

\* pf.p ?? 1
pOrOne(pf) == IF Nullish(Get(pf, "p")) THEN Whole(1) ELSE Get(pf, "p")

\* One round of the prefab validation loop on prefab pf: the error it
\* raises ("" for none) and pf as the round leaves it.  The side clamps
\* [1, 200] of the code are the grid's sides.
normPrefab(pf, bgIds, fgIds) ==
  IF ~(Truthy(pf) /\ TypeofObject(pf)) THEN [err |-> "BadPrefab", pf |-> pf]
  ELSE LET w == safeInt(Get(pf, "w"), 1, 1, width)
           h == safeInt(Get(pf, "h"), 1, 1, height)
           sized == ObjSet(ObjSet(pf, "w", Whole(w)), "h", Whole(h))
       IN IF ~Nullish(Get(pf, "bg")) /\ ~requireBg(Get(pf, "bg"), bgIds)
          THEN [err |-> "UnknownTile", pf |-> sized]
          ELSE IF ~Nullish(Get(pf, "fg")) /\ ~requireFgOrNull(Get(pf, "fg"), fgIds)
          THEN [err |-> "UnknownTile", pf |-> sized]
          ELSE [err |-> "",
                pf |-> ObjSet(sized, "p", Num(clamp01(NumberOr0(pOrOne(pf)))))]

RECURSIVE normPrefabs(_, _, _, _)
\* The loop after the round on prefab i returned r.
normNext(r, pfs, i, bgIds, fgIds) ==
  IF r.err # "" THEN [err |-> r.err, pfs |-> [pfs EXCEPT ![i] = r.pf]]
  ELSE normPrefabs([pfs EXCEPT ![i] = r.pf], i + 1, bgIds, fgIds)

\* The validation loop from prefab i on: the first error and the prefab
\* list as the loop leaves it.
normPrefabs(pfs, i, bgIds, fgIds) ==
  IF i > Len(pfs) THEN [err |-> "", pfs |-> pfs]
  ELSE normNext(normPrefab(pfs[i], bgIds, fgIds), pfs, i, bgIds, fgIds)

\* Math.max(0, Number(it.p ?? 1) || 0)
weightOf(it) == Max2(0, NumberOr0(pOrOne(it)))

RECURSIVE weightSum(_, _)
\* The weights of items[1..n] added up.
weightSum(items, n) == IF n = 0 THEN 0 ELSE weightSum(items, n - 1) + weightOf(items[n])

\* A choice that falls back to the last item when the weights add up to
\* nothing.
pickZeroSumLast(items) == Len(items)

\* The item pickWeighted returns when the weights add up to nothing.
pickZeroSum(items) == 1

\* pickWeighted(rng, items): the index (from 1) of the item picked and the
\* generator's state after the call.  t -= w; t <= 0 is decided exactly, as
\* d * sum <= w1 + ... + wi.
pickAt(h1, sum, items) ==
  [idx |-> IF \E i \in 1 .. Len(items) : DrawTimesLeq(h1, sum, weightSum(items, i))
           THEN CHOOSE i \in 1 .. Len(items) :
                  /\ DrawTimesLeq(h1, sum, weightSum(items, i))
                  /\ \A j \in 1 .. i - 1 : ~DrawTimesLeq(h1, sum, weightSum(items, j))
           ELSE Len(items),
   h |-> h1]

pickWeighted(h, items) ==
  IF weightSum(items, Len(items)) <= 0 THEN [idx |-> pickZeroSum(items), h |-> h]
  ELSE pickAt(rngStep(h), weightSum(items, Len(items)), items)

\* The cells of the w x h footprint whose top-left cell is (x0, y0).
Footprint(x0, y0, w, h) == (x0 .. x0 + w - 1) \X (y0 .. y0 + h - 1)

\* A canPlace that tests the grid's bounds and not the occupancy map.
canPlaceInGrid(occ, x0, y0, w, h) ==
  ~(x0 < 0 \/ y0 < 0 \/ x0 + w > width \/ y0 + h > height)

\* canPlace(x0, y0, w, h) on the occupancy map occ.
canPlace(occ, x0, y0, w, h) ==
  IF x0 < 0 \/ y0 < 0 \/ x0 + w > width \/ y0 + h > height THEN FALSE
  ELSE \A c \in Footprint(x0, y0, w, h) : occ[c] = 0

\* A markPlace that marks the top-left cell of the footprint only.
markPlaceCorner(occ, x0, y0, w, h) ==
  [c \in Cells |-> IF c = <<x0, y0>> THEN 1 ELSE occ[c]]

\* markPlace(x0, y0, w, h)
markPlace(occ, x0, y0, w, h) ==
  [c \in Cells |-> IF c \in Footprint(x0, y0, w, h) THEN 1 ELSE occ[c]]

\* One round of the attempt loop, up to the gate: the prefab picked, the
\* position drawn and the generator's state after the three draws.
attemptAt(idx, pf, w, h, x0, y0, rng) ==
  [idx |-> idx, pf |-> pf, w |-> w, h |-> h, x0 |-> x0, y0 |-> y0,
   cx |-> x0 + (w \div 2), cy |-> y0 + (h \div 2), rng |-> rng]

\* The two position draws, hx and hy being the generator's states after them.
attemptDraws(idx, pf, w, h, hx, hy) ==
  attemptAt(idx, pf, w, h, DrawFloor(hx, width - w + 1), DrawFloor(hy, height - h + 1), hy)

\* A round that takes x0 and y0 from one draw.
attemptOfOneDraw(pk, pf) ==
  attemptDraws(pk.idx, pf, NumberOf(Get(pf, "w")) \div Scale,
               NumberOf(Get(pf, "h")) \div Scale,
               rngStep(pk.h), rngStep(pk.h))

\* const pf = pickWeighted(rng, prefabs); x0 and y0 are the next two draws.
attemptOf(pk, pf) ==
  attemptDraws(pk.idx, pf, NumberOf(Get(pf, "w")) \div Scale,
               NumberOf(Get(pf, "h")) \div Scale,
               rngStep(pk.h), rngStep(rngStep(pk.h)))

attemptPick(pk, prefabs) == attemptOf(pk, prefabs[pk.idx])

drawAttempt(h, prefabs) == attemptPick(pickWeighted(h, prefabs), prefabs)

(* ------------------------------ the inputs ----------------------------- *)

BgTile(id) ==
  Obj([id |-> Str(id), name |-> Str(id), color |-> Str("#101010"), walkable |-> Bool(TRUE)])
FgTile(id) ==
  Obj([id |-> Str(id), name |-> Str(id), symbol |-> Str("*"), color |-> Str("#f0f0f0"),
       walkable |-> Bool(TRUE)])

\* A valid palette: background g (the default), w, r; foreground t.
TilesDecl ==
  Obj([background |-> Arr(<<BgTile("g"), BgTile("w"), BgTile("r")>>),
       foreground |-> Arr(<<FgTile("t")>>)])

Rect(x, y, w, h) ==
  Obj([kind |-> Str("rect"), x |-> Whole(x), y |-> Whole(y), w |-> Whole(w), h |-> Whole(h)])
Ref(n) == Obj([ref |-> Str(n)])
Const(v) == Obj([const |-> Num(v)])
Combine(op, a, b) == Obj([type |-> Str("combine"), op |-> Str(op), a |-> a, b |-> b])

\* The layers of the modelled specs: c5 constant 0.5; sh a shape; mx an
\* acyclic combine naming sh twice over; cy a combine naming itself; p1 and
\* p2 naming each other; un of an unsupported type.
LayerEnv ==
  Obj([c5 |-> Obj([type |-> Str("const"), value |-> Num(50)]),
       sh |-> Obj([type |-> Str("shape"), shape |-> Rect(0, 0, 2, 1)]),
       mx |-> Combine("max", Ref("sh"), Ref("sh")),
       cy |-> Combine("max", Ref("cy"), Const(20)),
       p1 |-> Combine("add", Const(10), Ref("p2")),
       p2 |-> Combine("add", Ref("p1"), Const(10)),
       un |-> Obj([type |-> Str("weird")])])

LayerGt(n, t) == Obj([layerGt |-> Arr(<<Str(n), Num(t)>>)])

Paint(where, bg) == Obj([type |-> Str("paint"), where |-> where, bg |-> Str(bg)])
PaintFg(where, bg, fg) ==
  Obj([type |-> Str("paint"), where |-> where, bg |-> Str(bg), fg |-> fg])
Prefab(w, h, bg, fg, p) ==
  Obj([w |-> Whole(w), h |-> Whole(h), bg |-> bg, fg |-> fg, p |-> Num(p)])
Scatter(seed, where, count, maxAttempts, prefabs) ==
  Obj([type |-> Str("stamp.scatter"), seed |-> Str(seed), where |-> where,
       count |-> count, maxAttempts |-> maxAttempts, prefabs |-> Arr(prefabs)])

\* The ops the modelled specs are made of.
OpPool ==
  { Paint(Undef, "w"),
    PaintFg(Obj([shape |-> Rect(0, 0, 2, 1)]), "r", Str("t")),
    PaintFg(Obj([chance |-> Num(50)]), "w", Null),
    Paint(LayerGt("mx", 50), "r"),
    Paint(Undef, "zz"),
    PaintFg(Undef, "g", Str("w")),
    Paint(LayerGt("cy", 50), "w"),
    Paint(LayerGt("p1", 50), "w"),
    Paint(Obj([layerGt |-> Num(50)]), "w"),
    Paint(Bool(FALSE), "r"),
    Obj([type |-> Str("roads.grid"), bg |-> Str("r"), spacing |-> Whole(2),
         thickness |-> Whole(1),
         fgAtIntersections |-> Obj([id |-> Str("t"), p |-> Num(50)])]),
    Obj([type |-> Str("roads.grid"), bg |-> Str("r"),
         fgAtIntersections |-> Obj([id |-> Str("zz"), p |-> Num(50)])]),
    Scatter("b", Undef, Whole(3), Whole(4),
            <<Prefab(2, 1, Str("w"), Str("t"), 50), Prefab(1, 2, Null, Str("t"), 100)>>),
    Scatter("a", Obj([shape |-> Rect(0, 0, 2, 2)]), Whole(0), Whole(2),
            <<Prefab(1, 1, Str("r"), Null, 100)>>),
    Scatter("s", Undef, Whole(1), Whole(1),
            <<Prefab(1, 1, Str("w"), Null, 100), Prefab(1, 1, Str("zz"), Null, 100)>>),
    Null,
    Obj([type |-> Str("erode")]) }

\* The paints of the longer op lists.
PaintPool ==
  { Paint(Undef, "w"),
    PaintFg(Obj([shape |-> Rect(0, 0, 2, 1)]), "r", Str("t")),
    PaintFg(Obj([chance |-> Num(50)]), "w", Null) }

\* The op lists of the modelled specs: every list of up to MaxOps ops of the
\* pool, and every list one longer made of paints alone.
OpsLists ==
  UNION {[1 .. n -> OpPool] : n \in 0 .. MaxOps} \cup [1 .. MaxOps + 1 -> PaintPool]

References == {"a", "b"}

(* ----------------------------- tile validation ------------------------- *)

\* The code units of a string value: those it carries, or those of its text.
CodesOf(v) == IF "c" \in DOMAIN v THEN v.c ELSE StrCodes(v.s)

\* [a-z0-9], [a-z0-9_-] and [0-9a-fA-F] as sets of code units.
LowerOrDigit == (97 .. 122) \cup (48 .. 57)
IdTail == LowerOrDigit \cup {95, 45}
HexDigit == (48 .. 57) \cup (97 .. 102) \cup (65 .. 70)

\* An id test that sets no limit to the length: /^[a-z0-9][a-z0-9_-]*$/
idTestUnbounded(c) ==
  /\ Len(c) >= 1
  /\ c[1] \in LowerOrDigit
  /\ \A i \in 2 .. Len(c) : c[i] \in IdTail

\* ID_RE.test(id), c the code units of id: /^[a-z0-9][a-z0-9_-]{0,15}$/
idTest(c) ==
  /\ Len(c) >= 1 /\ Len(c) <= 16
  /\ c[1] \in LowerOrDigit
  /\ \A i \in 2 .. Len(c) : c[i] \in IdTail

\* HEX_RE.test(color): /^#[0-9a-fA-F]{6}$/
hexTest(c) ==
  /\ Len(c) = 7
  /\ c[1] = 35
  /\ \A i \in 2 .. 7 : c[i] \in HexDigit

RECURSIVE uniqIdsFrom(_, _, _)
\* uniqIds(list, kind) from tile i on, seen being the ids added to the set so
\* far: the error it throws, "" for none.
uniqIdsFrom(list, i, seen) ==
  IF i > Len(list) THEN ""
  ELSE IF ~(Truthy(list[i]) /\ TypeofObject(list[i])) THEN "TileNotObject"
  ELSE IF ~(Get(list[i], "id").t = "str" /\ idTest(CodesOf(Get(list[i], "id"))))
  THEN "TileIdInvalid"
  ELSE IF Get(list[i], "id") \in seen THEN "TileIdNotUnique"
  ELSE uniqIdsFrom(list, i + 1, seen \cup {Get(list[i], "id")})

\* The error the checks of validateTiles on one tile raise, "" for none; a
\* property read on null or undefined is a TypeError.
tileChecks(t, isFg) ==
  IF Nullish(t) THEN "TypeError"
  ELSE IF Get(t, "name").t # "str" THEN "TileNameInvalid"
  ELSE IF isFg /\ ~(Get(t, "symbol").t = "str" /\ Len(CodesOf(Get(t, "symbol"))) >= 1
                    /\ Len(CodesOf(Get(t, "symbol"))) <= 4)
  THEN "TileSymbolInvalid"
  ELSE IF ~(Get(t, "color").t = "str" /\ hexTest(CodesOf(Get(t, "color"))))
  THEN "TileColorInvalid"
  ELSE IF Get(t, "walkable").t # "bool" THEN "TileWalkableInvalid"
  ELSE ""

\* The first error the loop over the tiles of a kind raises, "" for none.
tilesChecks(list, isFg) ==
  IF \A i \in DOMAIN list : tileChecks(list[i], isFg) = "" THEN ""
  ELSE tileChecks(list[CHOOSE i \in DOMAIN list :
                         /\ tileChecks(list[i], isFg) # ""
                         /\ \A j \in 1 .. i - 1 : tileChecks(list[j], isFg) = ""], isFg)

\* The checks of validateTiles once both lists are known to be arrays.
validateLists(bg, fg) ==
  IF tilesChecks(bg, FALSE) # "" THEN tilesChecks(bg, FALSE)
  ELSE IF tilesChecks(fg, TRUE) # "" THEN tilesChecks(fg, TRUE)
  ELSE IF uniqIdsFrom(bg, 1, {}) # "" THEN uniqIdsFrom(bg, 1, {})
  ELSE uniqIdsFrom(fg, 1, {})

\* validateTiles(tiles): the error it throws, "" when it returns the id sets.
validateTiles(tiles) ==
  IF ~(Truthy(tiles) /\ TypeofObject(tiles)) THEN "TilesInvalid"
  ELSE IF ~(Get(tiles, "background").t = "arr" /\ Len(Get(tiles, "background").a) >= 1)
  THEN "TilesBackgroundInvalid"
  ELSE IF Get(tiles, "foreground").t # "arr" THEN "TilesForegroundInvalid"
  ELSE validateLists(Get(tiles, "background").a, Get(tiles, "foreground").a)

(* --------------------------- the fallback spec -------------------------- *)

\* What a fetch that yields no document returns.
NoDocument == Null

\* A string known by its code units.
StrOfCodes(c) == [t |-> "str", s |-> "#codes", c |-> c]

\* 'tiles|'
TilesPipe == <<116, 105, 108, 101, 115, 124>>

\* v.toString(16).padStart(2, '0') as code units, for 0 <= v < 256.
HexChar(d) == IF d < 10 THEN 48 + d ELSE 87 + d
hex2(v) == <<HexChar(v \div 16), HexChar(v % 16)>>

\* rgbToHex(r, g, b)
rgbToHex(r, g, b) == StrOfCodes(<<35>> \o hex2(r) \o hex2(g) \o hex2(b))

\* Math.floor(r() * 200) + 30, h being the generator's state after the draw.
channel(h) == DrawFloor(h, 200) + 30

RECURSIVE drawStates(_, _)
\* The generator's states after each of the next n draws, appended to acc
\* (whose last element is the state before them).
drawStates(acc, n) ==
  IF n = 0 THEN acc
  ELSE CHOOSE r \in {drawStates(Append(acc, h1), n - 1) : h1 \in {rngStep(acc[Len(acc)])}} : TRUE

\* The colour of tile number k (from 0) of the two loops taken together, st
\* being the generator's states from the one before the first draw on.
colourOf(st, k) ==
  rgbToHex(channel(st[(3 * k) + 2]), channel(st[(3 * k) + 3]), channel(st[(3 * k) + 4]))

\* The symbols, as code units, the foreground tiles take in turn.
fallbackSymbols == <<9632, 9650, 9670, 9679, 9635, 9638, 9637>>

\* The numbers of tiles fallbackSpec makes.
bgCount == 6
fgCount == 4

\* Tile i of the background and of the foreground.
fallbackBg(i, st) ==
  Obj([id |-> Str(<<"bg0", "bg1", "bg2", "bg3", "bg4", "bg5">>[i + 1]),
       name |-> Str(<<"BG 0", "BG 1", "BG 2", "BG 3", "BG 4", "BG 5">>[i + 1]),
       color |-> colourOf(st, i),
       walkable |-> Bool(i # 0)])
fallbackFg(i, st) ==
  Obj([id |-> Str(<<"fg0", "fg1", "fg2", "fg3">>[i + 1]),
       name |-> Str(<<"FG 0", "FG 1", "FG 2", "FG 3">>[i + 1]),
       symbol |-> StrOfCodes(<<fallbackSymbols[(i % Len(fallbackSymbols)) + 1]>>),
       color |-> colourOf(st, bgCount + i),
       walkable |-> Bool(TRUE)])

\* tiles: { background, foreground } of fallbackSpec(reference)
fallbackTiles(ref) ==
  CHOOSE t \in { Obj([background |-> Arr([i \in 1 .. bgCount |-> fallbackBg(i - 1, st)]),
                      foreground |-> Arr([i \in 1 .. fgCount |-> fallbackFg(i - 1, st)])]) :
                   st \in {drawStates(<<xfnv1a(TilesPipe \o StrCodes(ref))>>,
                                      3 * (bgCount + fgCount))} } : TRUE

\* Layers that leave out the mask the ops name.
fallbackLayersNoMask ==
  Obj([n0 |-> Obj([type |-> Str("fbm"), seed |-> Str("n0"), scale |-> Num(1),
                   octaves |-> Whole(4), persistence |-> Num(50)]),
       n1 |-> Obj([type |-> Str("fbm"), seed |-> Str("n1"), scale |-> Num(1),
                   octaves |-> Whole(2), persistence |-> Num(60)])])

\* layers of fallbackSpec.  The scales 0.006 and 0.012 are rounded to the
\* fixed-point unit.
fallbackLayers ==
  Obj([n0 |-> Obj([type |-> Str("fbm"), seed |-> Str("n0"), scale |-> Num(1),
                   octaves |-> Whole(4), persistence |-> Num(50)]),
       n1 |-> Obj([type |-> Str("fbm"), seed |-> Str("n1"), scale |-> Num(1),
                   octaves |-> Whole(2), persistence |-> Num(60)]),
       mask |-> Obj([type |-> Str("radialGradient"), cx |-> Whole(500), cy |-> Whole(500),
                     r |-> Whole(540), invert |-> Bool(FALSE)])])

\* { all: [{ layerGt: ['mask', 0.05] }, p] }
OnLand(p) == Obj([all |-> Arr(<<LayerGt("mask", 5), p>>)])

\* ops of fallbackSpec
fallbackOps ==
  << PaintFg(Obj([layerLt |-> Arr(<<Str("mask"), Num(5)>>)]), "bg0", Null),
     Paint(OnLand(Obj([layerLt |-> Arr(<<Str("n0"), Num(20)>>)])), "bg1"),
     Paint(OnLand(Obj([layerBetween |-> Arr(<<Str("n0"), Num(20), Num(45)>>)])), "bg2"),
     Paint(OnLand(Obj([layerBetween |-> Arr(<<Str("n0"), Num(45), Num(70)>>)])), "bg3"),
     Paint(OnLand(LayerGt("n0", 70)), "bg4"),
     Paint(OnLand(LayerGt("n1", 75)), "bg5"),
     Scatter("scatter", LayerGt("mask", 15), Whole(16000), Whole(120000),
             << Obj([w |-> Whole(1), h |-> Whole(1), fg |-> Str("fg0"), p |-> Num(40)]),
                Obj([w |-> Whole(1), h |-> Whole(1), fg |-> Str("fg1"), p |-> Num(30)]),
                Obj([w |-> Whole(2), h |-> Whole(1), fg |-> Str("fg2"), p |-> Num(20)]),
                Obj([w |-> Whole(2), h |-> Whole(2), fg |-> Str("fg3"), p |-> Num(10)]) >>) >>

\* fallbackSpec(reference)
fallbackSpec(ref) ==
  [world |-> Obj([width |-> Whole(200), height |-> Whole(200), metersPerCell |-> Whole(1)]),
   tiles |-> fallbackTiles(ref),
   layers |-> fallbackLayers,
   ops |-> Arr(fallbackOps)]

\* Whether what the fetch returned is a spec document (specRaw && typeof
\* specRaw === 'object'); the documents of the model are the records with
\* the fields world, tiles, layers and ops.
IsDocument(raw) == "ops" \in DOMAIN raw

\* The document a call works on:
\*   const spec = (specRaw && typeof specRaw === 'object') ? specRaw : fallbackSpec(reference);
\*   if (!spec.tiles) spec.tiles = fallbackSpec(reference).tiles;
documentOf(raw, ref) ==
  IF ~IsDocument(raw) THEN fallbackSpec(ref)
  ELSE IF ~Truthy(raw.tiles) THEN [raw EXCEPT !.tiles = fallbackTiles(ref)]
  ELSE raw

(* ------------------------------ the run -------------------------------- *)

VARIABLES
  reference,   \* the reference string of the run
  specRaw,     \* the spec document as it is handed to a run
  spec,        \* the run's spec object: world, tiles, layers, ops
  pc,          \* "start", "ops", "scatter", "done" or "error"
  err,         \* the error thrown, "" for none
  opIndex,     \* the index (from 0) of the op the loop is at
  bgGrid,      \* bgGrid[<<x, y>>]
  fgGrid,      \* fgGrid[<<x, y>>]
  visiting,    \* the sampler's in-progress set
  sc,          \* the locals of the stamp.scatter op in progress
  placements,  \* the footprints placed by this run, in order
  output,      \* the value Generate returns
  run,         \* 1 for the first call, 2 for the second
  prev,        \* how the first call ended
  predIn,      \* the predicate value handed to predTrue
  cellIn,      \* the cell it is evaluated at
  answer,      \* what predTrue did: "T", "F", an error, or "" before the call
  call,        \* a function of the engine called on its own, and its arguments
  result,      \* what the call returned
  outFile,     \* whether WORLD_ENGINE_OUTFILE names a file
  file         \* what that file holds

callVars == <<call, result>>
fileVars == <<outFile, file>>
predVars == <<predIn, cellIn, answer, callVars, fileVars>>
vars == <<reference, specRaw, spec, pc, err, opIndex, bgGrid, fgGrid, visiting, sc,
          placements, output, run, prev, predIn, cellIn, answer, call, result,
          outFile, file>>

NoOutput == [t |-> "none"]
NoCall == [fn |-> "none"]
NoResult == [done |-> FALSE]
NoScatter == [rng |-> <<0, 0>>, occ |-> [c \in Cells |-> 0], attempt |-> 0,
              placed |-> 0, count |-> 0, maxAttempts |-> 0]
Unallocated == [c \in Cells |-> Undef]

\* layers, ops as Generate reads them from the spec.
runLayers == IF Truthy(spec.layers) /\ TypeofObject(spec.layers) THEN spec.layers ELSE Obj(<<>>)
runOps == IF spec.ops.t = "arr" THEN spec.ops.a ELSE <<>>
bgIds == uniqIds(Get(spec.tiles, "background"))
fgIds == uniqIds(Get(spec.tiles, "foreground"))
curOp == runOps[opIndex + 1]
curType == StringOr(Get(curOp, "type"), "")

\* The spec documents of the modelled runs.
SpecOf(l) == [world |-> Undef, tiles |-> TilesDecl, layers |-> LayerEnv, ops |-> Arr(l)]

Init ==
  /\ reference \in References
  /\ specRaw \in {SpecOf(l) : l \in OpsLists}
  /\ spec = specRaw
  /\ predIn = Undef /\ cellIn = <<0, 0>> /\ answer = ""
  /\ call = NoCall /\ result = NoResult
  /\ outFile = FALSE /\ file = NoOutput
  /\ pc = "start"
  /\ err = ""
  /\ opIndex = 0
  /\ bgGrid = Unallocated
  /\ fgGrid = Unallocated
  /\ visiting = {}
  /\ sc = NoScatter
  /\ placements = <<>>
  /\ output = NoOutput
  /\ run = 1
  /\ prev = [pc |-> "", err |-> "", output |-> NoOutput, placements |-> <<>>]

\* An error is thrown: Generate returns nothing.
Throw(e) == pc' = "error" /\ err' = e /\ output' = NoOutput

\* layers, ops as Generate reads them from the document sp.
layersOf(sp) == IF Truthy(sp.layers) /\ TypeofObject(sp.layers) THEN sp.layers ELSE Obj(<<>>)
opsOf(sp) == IF sp.ops.t = "arr" THEN sp.ops.a ELSE <<>>

\* Generate up to the op loop, on the document handed to this call or the
\* fallback spec in its place: the world size is fixed, the tiles are
\* validated, the limits are checked, the sampler is made and the grids are
\* allocated.
\* The limits on a spec: at most 128 layers, at most 256 ops.
LayerLimit == 128
OpLimit == 256
tooManyLayers(sp) == Cardinality(DOMAIN layersOf(sp).o) > LayerLimit

\* A limit that turns away a list of exactly 256 ops.
tooManyOpsFrom256(sp) == Len(opsOf(sp)) >= OpLimit

tooManyOps(sp) == Len(opsOf(sp)) > OpLimit

Start ==
  /\ pc = "start"
  /\ \E doc \in {documentOf(specRaw, reference)} :
     \E tilesErr \in {validateTiles(doc.tiles)} :
       /\ spec' = [doc EXCEPT !.world =
                     Obj([width |-> Whole(width), height |-> Whole(height),
                          metersPerCell |-> Whole(1)])]
       /\ IF tilesErr # ""
          THEN Throw(tilesErr) /\ UNCHANGED <<bgGrid, fgGrid>>
          ELSE IF tooManyLayers(doc)
          THEN Throw("TooManyLayers") /\ UNCHANGED <<bgGrid, fgGrid>>
          ELSE IF tooManyOps(doc)
          THEN Throw("TooManyOps") /\ UNCHANGED <<bgGrid, fgGrid>>
          ELSE /\ bgGrid' = [c \in Cells |-> Get(At(Get(doc.tiles, "background"), 0), "id")]
               /\ fgGrid' = [c \in Cells |-> Null]
               /\ pc' = "ops"
               /\ err' = ""
               /\ output' = NoOutput
  /\ visiting' = {}
  /\ placements' = <<>>
  /\ opIndex' = 0
  /\ UNCHANGED <<reference, specRaw, sc, run, prev, predVars>>

AtOp == pc = "ops" /\ opIndex < Len(runOps)
IsObjectOp == Truthy(curOp) /\ TypeofObject(curOp)

\* The op the loop goes to after op number i.
nextOpIndex(i) == i + 1

\* if (!op || typeof op !== 'object') continue;
OpSkip ==
  /\ AtOp /\ ~IsObjectOp
  /\ opIndex' = nextOpIndex(opIndex)
  /\ UNCHANGED <<predVars, reference, specRaw, spec, pc, err, bgGrid, fgGrid, visiting, sc, placements,
                 output, run, prev>>

\* How a loop over the grid ends, n cells completed: the gate of cell n
\* throws, or the op loop goes on.
LoopEnd(R, n) ==
  IF n < width * height
  THEN /\ \E g \in {R[CHOOSE c \in Cells : Ord(c) = n]} :
            Throw(g.r) /\ visiting' = g.vis
       /\ UNCHANGED opIndex
  ELSE /\ opIndex' = nextOpIndex(opIndex)
       /\ UNCHANGED <<pc, err, output, visiting>>

\* A paint op: its tile checks, then the loop over the grid.
OpPaint ==
  /\ AtOp /\ IsObjectOp /\ curType = "paint"
  /\ IF ~paintRefsOk(curOp, bgIds, fgIds)
     THEN Throw("UnknownTile") /\ UNCHANGED <<bgGrid, fgGrid, visiting, opIndex>>
     ELSE \E R \in {GateAt(Get(curOp, "where"), runLayers, reference, visiting)} :
          \E n \in {CellsDone(R)} :
             /\ bgGrid' = paintBg(curOp, R, n, bgGrid)
             /\ fgGrid' = paintFg(curOp, R, n, fgGrid)
             /\ LoopEnd(R, n)
  /\ UNCHANGED <<predVars, reference, specRaw, spec, sc, placements, run, prev>>

\* A roads.grid op: its tile checks, then the loop over the grid.
OpRoads ==
  /\ AtOp /\ IsObjectOp /\ curType = "roads.grid"
  /\ IF ~roadsRefsOk(curOp, bgIds, fgIds)
     THEN Throw("UnknownTile") /\ UNCHANGED <<bgGrid, fgGrid, visiting, opIndex>>
     ELSE \E R \in {GateAt(Get(curOp, "where"), runLayers, reference, visiting)} :
          \E n \in {CellsDone(R)} :
             /\ bgGrid' = roadsBg(curOp, R, n, bgGrid)
             /\ fgGrid' = roadsFg(curOp, reference, R, n, fgGrid)
             /\ LoopEnd(R, n)
  /\ UNCHANGED <<predVars, reference, specRaw, spec, sc, placements, run, prev>>

\* A write-back that stores the clamped count in the op as well.
withPrefabsAndCount(sp, i, pfs) ==
  [sp EXCEPT !.ops = Arr([sp.ops.a EXCEPT ![i + 1] =
     ObjSet(ObjSet(@, "prefabs", Arr(pfs)), "count", Whole(scatterCount(@)))])]

\* The spec after pf.w = w; pf.h = h; ... pf.p = ... on the prefabs of op
\* number i: the op's prefab list replaced by the list the loop leaves.
withPrefabs(sp, i, pfs) ==
  [sp EXCEPT !.ops = Arr([sp.ops.a EXCEPT ![i + 1] = ObjSet(@, "prefabs", Arr(pfs))])]

\* A generator that is made once and kept across ops and calls.
scatterRngKept(seed, op) ==
  IF sc.attempt > 0 THEN sc.rng
  ELSE xfnv1a(StrCodes(seed) \o PipeScatter \o StrCodes(scatterSeed(op)))

\* const rng = xfnv1a(reference + '|scatter|' + seed): the op's own generator.
scatterRng(seed, op) ==
  xfnv1a(StrCodes(seed) \o PipeScatter \o StrCodes(scatterSeed(op)))

\* An occupancy map made once and kept from one op to the next.
occKept == sc.occ

\* const occ = new Uint8Array(width * height): the op's own map, all zero.
occNew == [c \in Cells |-> 0]

\* A stamp.scatter op up to its attempt loop: the clamps, the prefab
\* validation (which writes w, h and p back into the prefabs), the empty
\* occupancy map and the op's generator.
ScatterBegin ==
  /\ AtOp /\ IsObjectOp /\ curType = "stamp.scatter"
  /\ \E pfs \in {scatterPrefabs(curOp)} :
        IF ~(Len(pfs) >= 1 /\ Len(pfs) <= 128)
        THEN Throw("BadPrefabs") /\ UNCHANGED <<spec, sc>>
        ELSE \E r \in {normPrefabs(pfs, 1, bgIds, fgIds)} :
                /\ spec' = withPrefabs(spec, opIndex, r.pfs)
                /\ IF r.err # ""
                   THEN Throw(r.err) /\ UNCHANGED sc
                   ELSE /\ sc' = [rng |-> scatterRng(reference, curOp),
                                  occ |-> occNew,
                                  attempt |-> 0,
                                  placed |-> 0,
                                  count |-> scatterCount(curOp),
                                  maxAttempts |-> scatterMaxAttempts(curOp)]
                        /\ pc' = "scatter"
                        /\ UNCHANGED <<err, output>>
  /\ UNCHANGED <<predVars, reference, specRaw, opIndex, bgGrid, fgGrid, visiting, placements, run, prev>>

\* The grids an accepted attempt leaves.
stampBg(a, bg) ==
  [c \in Cells |->
     IF c \in Footprint(a.x0, a.y0, a.w, a.h) /\ ~Nullish(Get(a.pf, "bg"))
     THEN Get(a.pf, "bg") ELSE bg[c]]

stampFg(a, fg) ==
  [c \in Cells |->
     IF c = <<a.cx, a.cy>> /\ ~Nullish(Get(a.pf, "fg")) THEN Get(a.pf, "fg") ELSE fg[c]]

\* One round of the attempt loop.
ScatterAttempt ==
  /\ pc = "scatter"
  /\ sc.attempt < sc.maxAttempts /\ sc.placed < sc.count
  /\ \E a \in {drawAttempt(sc.rng, scatterPrefabs(curOp))} :
     \E g \in {predTrue(Get(curOp, "where"), a.cx, a.cy, runLayers, reference, visiting)} :
        IF g.r \notin {"T", "F"}
        THEN /\ Throw(g.r)
             /\ visiting' = g.vis
             /\ sc' = [sc EXCEPT !.rng = a.rng]
             /\ UNCHANGED <<bgGrid, fgGrid, placements>>
        ELSE IF g.r = "F" \/ ~canPlace(sc.occ, a.x0, a.y0, a.w, a.h)
        THEN /\ sc' = [sc EXCEPT !.rng = a.rng, !.attempt = @ + 1]
             /\ UNCHANGED <<pc, err, output, visiting, bgGrid, fgGrid, placements>>
        ELSE /\ bgGrid' = stampBg(a, bgGrid)
             /\ fgGrid' = stampFg(a, fgGrid)
             /\ sc' = [sc EXCEPT !.rng = a.rng, !.attempt = @ + 1, !.placed = @ + 1,
                                 !.occ = markPlace(sc.occ, a.x0, a.y0, a.w, a.h)]
             /\ placements' = Append(placements,
                                     [op |-> opIndex, attempt |-> sc.attempt, idx |-> a.idx,
                                      x0 |-> a.x0, y0 |-> a.y0, w |-> a.w, h |-> a.h])
             /\ UNCHANGED <<pc, err, output, visiting>>
  /\ UNCHANGED <<predVars, reference, specRaw, spec, opIndex, run, prev>>

\* The attempt loop ends: maxAttempts rounds made or count prefabs placed.
ScatterEnd ==
  /\ pc = "scatter"
  /\ ~(sc.attempt < sc.maxAttempts /\ sc.placed < sc.count)
  /\ pc' = "ops"
  /\ opIndex' = nextOpIndex(opIndex)
  /\ UNCHANGED <<predVars, reference, specRaw, spec, err, bgGrid, fgGrid, visiting, sc, placements,
                 output, run, prev>>

\* throw new Error('Unsupported op.type ...')
OpUnknown ==
  /\ AtOp /\ IsObjectOp
  /\ curType \notin {"paint", "roads.grid", "stamp.scatter"}
  /\ Throw("UnsupportedOp")
  /\ UNCHANGED <<predVars, reference, specRaw, spec, opIndex, bgGrid, fgGrid, visiting, sc, placements,
                 run, prev>>

\* A composition that runs over the columns first: cells[x][y].
composeCellsByColumn(bg, fg) ==
  [x \in 1 .. width |->
     [y \in 1 .. height |->
        <<bg[<<x - 1, y - 1>>],
          IF fg[<<x - 1, y - 1>>] = Undef THEN Null ELSE fg[<<x - 1, y - 1>>]>>]]

\* cells[y][x] = [bg, fg], rows and entries numbered from 1 here.
composeCells(bg, fg) ==
  [y \in 1 .. height |->
     [x \in 1 .. width |->
        <<bg[<<x - 1, y - 1>>],
          IF fg[<<x - 1, y - 1>>] = Undef THEN Null ELSE fg[<<x - 1, y - 1>>]>>]]

\* `Wrote terrain JSON to ${abs}`
Wrote == [t |-> "wrote"]

\* The op loop is over: the cells are composed and the output returned, or,
\* with WORLD_ENGINE_OUTFILE set, written to that file in place of what the
\* file held and a message returned.
Compose ==
  /\ pc = "ops" /\ opIndex >= Len(runOps)
  /\ \E out \in {[tiles |-> spec.tiles,
                   area |-> [width |-> width, height |-> height,
                             cells |-> composeCells(bgGrid, fgGrid)]]} :
        IF outFile
        THEN file' = out /\ output' = Wrote
        ELSE output' = out /\ UNCHANGED file
  /\ pc' = "done"
  /\ UNCHANGED <<predIn, cellIn, answer, callVars, outFile, reference, specRaw, spec, err,
                 opIndex, bgGrid, fgGrid, visiting, sc, placements, run, prev>>

\* Generate is called a second time, with the same reference and a document
\* equal to the first call's.  What the first call left behind stays as it is.
Rerun ==
  /\ pc \in {"done", "error"} /\ run = 1
  /\ prev' = [pc |-> pc, err |-> err, output |-> output, placements |-> placements]
  /\ run' = 2
  /\ pc' = "start"
  /\ UNCHANGED <<reference, specRaw, spec, err, opIndex, bgGrid, fgGrid, visiting, sc,
                 placements, output, predVars>>

Next ==
  \/ Start
  \/ OpSkip
  \/ OpPaint
  \/ OpRoads
  \/ ScatterBegin
  \/ ScatterAttempt
  \/ ScatterEnd
  \/ OpUnknown
  \/ Compose
  \/ Rerun

Spec == Init /\ [][Next]_vars

(* ------------------------ predTrue on its own --------------------------- *)

\* The predicate values predTrue is given: absent ones, present values of
\* no recognised form, the recognised forms well formed, and recognised keys
\* holding a value of the wrong shape.
PredAbsent == {Undef, Null}
PredUnrecognised ==
  { Bool(FALSE), Whole(0), Str(""), Bool(TRUE), Whole(5), Str("a"), Arr(<<>>),
    Obj([kind |-> Str("rect")]), Obj([layer |-> Str("c5")]) }
PredWellFormed ==
  { LayerGt("c5", 20), LayerGt("mx", 50),
    Obj([layerLt |-> Arr(<<Str("c5"), Num(20)>>)]),
    Obj([layerBetween |-> Arr(<<Str("sh"), Num(50), Whole(1)>>)]),
    Obj([shape |-> Rect(0, 0, 2, 1)]),
    Obj([chance |-> Num(50)]),
    Obj([not |-> Obj([shape |-> Rect(0, 0, 2, 1)])]),
    Obj([all |-> Arr(<<Obj([shape |-> Rect(0, 0, 2, 1)]), LayerGt("c5", 20)>>)]),
    Obj([any |-> Arr(<<Obj([shape |-> Rect(0, 0, 2, 1)]), Bool(TRUE)>>)]) }
PredMalformed ==
  { Obj([layerGt |-> Num(50)]),
    Obj([layerLt |-> Bool(TRUE)]),
    Obj([layerBetween |-> Obj([name |-> Str("c5")])]),
    Obj([layerGt |-> Arr(<<>>)]),
    Obj([all |-> Whole(5)]),
    Obj([any |-> Obj([shape |-> Rect(0, 0, 2, 1)])]),
    Obj([all |-> Str("a")]) }
PredPool == PredAbsent \cup PredUnrecognised \cup PredWellFormed \cup PredMalformed

InitPred ==
  /\ reference \in References
  /\ specRaw = SpecOf(<<>>)
  /\ spec = specRaw
  /\ predIn \in PredPool /\ cellIn \in Cells /\ answer = ""
  /\ call = NoCall /\ result = NoResult
  /\ outFile = FALSE /\ file = NoOutput
  /\ pc = "start"
  /\ err = ""
  /\ opIndex = 0
  /\ bgGrid = Unallocated
  /\ fgGrid = Unallocated
  /\ visiting = {}
  /\ sc = NoScatter
  /\ placements = <<>>
  /\ output = NoOutput
  /\ run = 1
  /\ prev = [pc |-> "", err |-> "", output |-> NoOutput, placements |-> <<>>]

\* predTrue(predIn, x, y, ctx) is called on a fresh sampler.
Evaluate ==
  /\ answer = ""
  /\ answer' = predTrue(predIn, cellIn[1], cellIn[2], layersOf(specRaw), reference, {}).r
  /\ UNCHANGED <<reference, specRaw, spec, pc, err, opIndex, bgGrid, fgGrid, visiting, sc,
                 placements, output, run, prev, predIn, cellIn, callVars, fileVars>>

NextPred == Evaluate

SpecPred == InitPred /\ [][NextPred]_vars

(* ------------------------ roads.grid on its own ------------------------- *)

\* Specs of one roads.grid op over the first background: origin, spacing
\* and thickness absent, whole, fractional, negative and outside the ranges
\* the op works in; gated or not.
RoadsOrigins ==
  { Undef, Arr(<<Whole(0), Whole(0)>>), Arr(<<Whole(1), Whole(0)>>),
    Arr(<<Whole(-1), Whole(-1)>>), Arr(<<Num(50), Whole(1)>>) }
RoadsSpacings == { Undef, Whole(1), Whole(2), Whole(3), Num(250), Whole(20) }
RoadsThicknesses == { Undef, Whole(0), Whole(1), Whole(2) }
RoadsGates == { Undef, Obj([shape |-> Rect(0, 0, 2, 2)]) }
RoadsPool ==
  { Obj([type |-> Str("roads.grid"), bg |-> Str("r"), origin |-> o,
         spacing |-> s, thickness |-> t, where |-> g]) :
      o \in RoadsOrigins, s \in RoadsSpacings, t \in RoadsThicknesses,
      g \in RoadsGates }

InitRoads ==
  /\ reference \in References
  /\ specRaw \in {SpecOf(<<op>>) : op \in RoadsPool}
  /\ spec = specRaw
  /\ predIn = Undef /\ cellIn = <<0, 0>> /\ answer = ""
  /\ call = NoCall /\ result = NoResult
  /\ outFile = FALSE /\ file = NoOutput
  /\ pc = "start"
  /\ err = ""
  /\ opIndex = 0
  /\ bgGrid = Unallocated
  /\ fgGrid = Unallocated
  /\ visiting = {}
  /\ sc = NoScatter
  /\ placements = <<>>
  /\ output = NoOutput
  /\ run = 1
  /\ prev = [pc |-> "", err |-> "", output |-> NoOutput, placements |-> <<>>]

NextRoads ==
  \/ Start
  \/ OpRoads
  \/ Compose

SpecRoads == InitRoads /\ [][NextRoads]_vars

(* --------------------- inputs of the tile validation ------------------- *)

\* Tiles of the palettes validateTiles is called on.
TileWith(id, color) ==
  Obj([id |-> id, name |-> Str("n"), symbol |-> Str("*"), color |-> Str(color),
       walkable |-> Bool(TRUE)])
IdPool ==
  { "g", "w", "0", "a-b", "a_b0", "abcdefghijklmnop",
    "", "A", "aB", "_a", "a b", "abcdefghijklmnopq" }
TileLists ==
  {<<TileWith(Str(a), "#101010")>> : a \in IdPool}
  \cup {<<TileWith(Str(a), "#101010"), TileWith(Str(b), "#f0f0f0")>> : a, b \in {"g", "w", "aB"}}
  \cup { <<>>, <<TileWith(Whole(1), "#101010")>>, <<Null>>, <<TileWith(Str("g"), "red")>>,
         <<TileWith(Str("g"), "#12345g")>>, <<TileWith(Str("g"), "#FFF")>>,
         <<TileWith(Str("g"), "#101010"), TileWith(Str("w"), "#101010"),
           TileWith(Str("g"), "#f0f0f0")>> }
FgLists ==
  { <<>>, <<TileWith(Str("g"), "#f0f0f0")>>, <<TileWith(Str("t"), "#f0f0f0")>>,
    <<TileWith(Str("t"), "#f0f0f0"), TileWith(Str("t"), "#101010")>>,
    <<TileWith(Str("A"), "#f0f0f0")>>,
    <<TileWith(Str("w"), "#f0f0f0"), TileWith(Str("g"), "#f0f0f0")>> }
TileCalls ==
  { [fn |-> "validateTiles", tiles |-> Obj([background |-> Arr(b), foreground |-> Arr(f)])] :
      b \in TileLists, f \in FgLists }
  \cup { [fn |-> "validateTiles", tiles |-> v] :
           v \in {Undef, Null, Obj([foreground |-> Arr(<<>>)]),
                  Obj([background |-> Arr(<<TileWith(Str("g"), "#101010")>>)])} }

(* ---------------------- the functions on their own ---------------------- *)

\* States of the generator a call may find it in.
Words == { <<0, 0>>, <<0, 1>>, <<Half \div 2, 0>>, <<Half - 1, Half - 1>>,
           xfnv1a(StrCodes("a")), xfnv1a(StrCodes("b")) }

\* Prefab lists as the validation loop leaves them, with weights 0, 0.5, 1.
Weighted(p) == Prefab(1, 1, Str("w"), Null, p)
WeightLists == UNION { [1 .. n -> {Weighted(0), Weighted(50), Weighted(100)}] : n \in 1 .. 3 }
PickCalls == { [fn |-> "pickWeighted", h |-> h, items |-> l] : h \in Words, l \in WeightLists }

\* Prefabs as a spec document gives them, their sides absent, fractional,
\* below 1 and beyond the grid.
Sides(n) == { Undef, Whole(-1), Whole(0), Whole(1), Whole(2), Num(150), Whole(n), Whole(n + 1) }
PositionCalls ==
  { [fn |-> "position", pf |-> Obj([w |-> w, h |-> h, bg |-> Str("w")]), hx |-> hx, hy |-> hy] :
      w \in Sides(width), h \in Sides(height), hx \in Words, hy \in Words }

\* An acyclic layer graph in which sh is named by both operands of mx, by m2
\* and, through them, twice over by top.
SharedLayers ==
  Obj([c5 |-> Obj([type |-> Str("const"), value |-> Num(50)]),
       sh |-> Obj([type |-> Str("shape"), shape |-> Rect(0, 0, 2, 1)]),
       mx |-> Combine("max", Ref("sh"), Ref("sh")),
       m2 |-> Combine("add", Ref("sh"), Ref("mx")),
       top |-> Combine("mul", Ref("mx"), Ref("m2")),
       cy |-> Combine("min", Ref("c5"), Ref("m2")),
       p1 |-> Combine("sub", Ref("top"), Ref("top")),
       un |-> Combine("max", Ref("p1"), Const(20))])

\* In-progress sets a sample starts from: none, and samples of other layers
\* or other cells under way.
InProgress == { {}, {<<"q", 0, 0>>}, {<<"q", 0, 0>>, <<"top", 1, 1>>} }

\* One combine layer L over two constants, for every op, with t absent, a
\* number, a pair of edges, and a list too short to hold both edges.
CombineT(op, a, b, t) ==
  Obj([type |-> Str("combine"), op |-> Str(op), a |-> Const(a), b |-> Const(b), t |-> t])
CombineOps == {"add", "sub", "mul", "min", "max", "lerp", "threshold", "smoothstep", "blend"}
CombineTs ==
  { Undef, Num(0), Num(30), Num(50), Num(100), Arr(<<Num(40), Num(60)>>),
    Arr(<<Num(50), Num(50)>>), Arr(<<>>), Arr(<<Num(20)>>) }
SampleCalls ==
  { [fn |-> "sampleLayer", layers |-> Obj([L |-> CombineT(op, a, b, t)]), seed |-> "a",
     name |-> "L", x |-> 0, y |-> 0, vis |-> {}] :
      op \in CombineOps, a \in {0, 30, 40, 60, 100}, b \in {0, 40, 100}, t \in CombineTs }
  \cup { [fn |-> "sampleLayer", layers |-> LayerEnv, seed |-> "a", name |-> n,
          x |-> c[1], y |-> c[2], vis |-> {}] :
           n \in {"c5", "sh", "mx"}, c \in Cells }
  \cup { [fn |-> "sampleLayer", layers |-> l, seed |-> "a", name |-> n, x |-> c[1], y |-> c[2],
          vis |-> v] :
           l \in {SharedLayers, LayerEnv}, n \in {"c5", "sh", "mx", "m2", "top", "cy", "p1", "un"},
           c \in {<<0, 0>>, <<2, 1>>}, v \in InProgress }

\* Rects with whole, fractional, negative and empty sides, and points in
\* and around the rect {x: 0, y: 0, w: 10, h: 10}.
ShapeCalls ==
  { [fn |-> "shapeContains",
     shape |-> Obj([kind |-> Str("rect"), x |-> x, y |-> y, w |-> w, h |-> h]),
     x |-> px, y |-> py] :
      x \in {Whole(0), Whole(1), Whole(-1), Num(50), Num(-50)},
      y \in {Whole(0), Num(150)},
      w \in {Whole(10), Whole(2), Whole(0), Whole(-1), Num(50), Num(250)},
      h \in {Whole(10), Whole(1), Whole(0), Num(150)},
      px \in {-1, 0, 1, 2, 9, 10}, py \in {-1, 0, 1, 9, 10} }

Calls == PickCalls \cup PositionCalls \cup SampleCalls \cup ShapeCalls \cup TileCalls

InitCalls ==
  /\ reference \in {"a"}
  /\ specRaw = SpecOf(<<>>)
  /\ spec = specRaw
  /\ predIn = Undef /\ cellIn = <<0, 0>> /\ answer = ""
  /\ call \in Calls /\ result = NoResult
  /\ outFile = FALSE /\ file = NoOutput
  /\ pc = "start"
  /\ err = ""
  /\ opIndex = 0
  /\ bgGrid = Unallocated
  /\ fgGrid = Unallocated
  /\ visiting = {}
  /\ sc = NoScatter
  /\ placements = <<>>
  /\ output = NoOutput
  /\ run = 1
  /\ prev = [pc |-> "", err |-> "", output |-> NoOutput, placements |-> <<>>]

\* The call returns v.
Returns(v) ==
  /\ ~result.done
  /\ result' = [done |-> TRUE, v |-> v]
  /\ UNCHANGED <<reference, specRaw, spec, pc, err, opIndex, bgGrid, fgGrid, visiting, sc,
                 placements, output, run, prev, predIn, cellIn, answer, call, fileVars>>

CallPickWeighted ==
  /\ call.fn = "pickWeighted"
  /\ Returns(pickWeighted(call.h, call.items))

\* The sides the validation loop leaves in prefab pf, then the position the
\* attempt loop draws for it, hx and hy being the generator's two states.
positionOf(pf, hx, hy) ==
  attemptDraws(1, pf, NumberOf(Get(pf, "w")) \div Scale, NumberOf(Get(pf, "h")) \div Scale,
               hx, hy)

CallPosition ==
  /\ call.fn = "position"
  /\ Returns(positionOf(normPrefab(call.pf, bgIds, fgIds).pf, call.hx, call.hy))

CallSampleLayer ==
  /\ call.fn = "sampleLayer"
  /\ Returns(sampleLayer(call.layers, call.seed, call.name, call.x, call.y, call.vis))

CallShapeContains ==
  /\ call.fn = "shapeContains"
  /\ Returns(shapeContains(call.shape, call.x, call.y))

CallValidateTiles ==
  /\ call.fn = "validateTiles"
  /\ Returns(validateTiles(call.tiles))

NextCalls ==
  \/ CallPickWeighted
  \/ CallPosition
  \/ CallSampleLayer
  \/ CallShapeContains
  \/ CallValidateTiles

SpecCalls == InitCalls /\ [][NextCalls]_vars

(* ------------------------- specs at the limits -------------------------- *)

\* Specs of 128 or 129 constant layers and of 256 or 257 paints that match
\* every cell, painting "w" and "r" in turn.
LayerName(i) == "l" \o ToString(i)
ManyLayers(n) ==
  Obj([k \in {LayerName(i) : i \in 1 .. n} |-> Obj([type |-> Str("const"), value |-> Num(50)])])
ManyOps(n) == [i \in 1 .. n |-> Paint(Undef, IF i % 2 = 1 THEN "w" ELSE "r")]
LimitSpecs ==
  { [world |-> Undef, tiles |-> TilesDecl, layers |-> ManyLayers(l), ops |-> Arr(ManyOps(n))] :
      l \in {LayerLimit, LayerLimit + 1}, n \in {OpLimit, OpLimit + 1} }

InitLimits ==
  /\ reference \in References
  /\ specRaw \in LimitSpecs
  /\ spec = specRaw
  /\ predIn = Undef /\ cellIn = <<0, 0>> /\ answer = ""
  /\ call = NoCall /\ result = NoResult
  /\ outFile = FALSE /\ file = NoOutput
  /\ pc = "start"
  /\ err = ""
  /\ opIndex = 0
  /\ bgGrid = Unallocated
  /\ fgGrid = Unallocated
  /\ visiting = {}
  /\ sc = NoScatter
  /\ placements = <<>>
  /\ output = NoOutput
  /\ run = 1
  /\ prev = [pc |-> "", err |-> "", output |-> NoOutput, placements |-> <<>>]

NextLimits ==
  \/ Start
  \/ OpPaint
  \/ Compose

SpecLimits == InitLimits /\ [][NextLimits]_vars

(* ---------------------- gates over named layers ------------------------- *)

\* Layers of which dg and d2 name, in a {ref} operand, a layer zz that is
\* not defined, d2 behind an operand that is.
GateLayers ==
  Obj([c5 |-> Obj([type |-> Str("const"), value |-> Num(50)]),
       sh |-> Obj([type |-> Str("shape"), shape |-> Rect(0, 0, 2, 1)]),
       mx |-> Combine("max", Ref("sh"), Ref("c5")),
       dg |-> Combine("add", Const(10), Ref("zz")),
       d2 |-> Combine("max", Ref("c5"), Ref("dg"))])

\* Gates that name a defined layer, an undefined one, or a layer with an
\* undefined operand; alone, negated, and behind an element of all / any
\* that does or does not decide the answer first.
Everywhere == Obj([shape |-> Rect(0, 0, width, height)])
Nowhere == Obj([shape |-> Rect(0, 0, 0, 0)])
FirstTwo == Obj([shape |-> Rect(0, 0, 2, 1)])
GatePool ==
  { Undef, FirstTwo,
    LayerGt("c5", 40), LayerGt("mx", 70),
    LayerGt("zz", 50), LayerGt("dg", 50), LayerGt("d2", 50),
    Obj([layerLt |-> Arr(<<Str("zz"), Num(50)>>)]),
    Obj([layerBetween |-> Arr(<<Str("zz"), Num(10), Num(50)>>)]),
    Obj([not |-> LayerGt("zz", 50)]),
    Obj([any |-> Arr(<<Everywhere, LayerGt("zz", 50)>>)]),
    Obj([any |-> Arr(<<FirstTwo, LayerGt("zz", 50)>>)]),
    Obj([any |-> Arr(<<LayerGt("zz", 50), Everywhere>>)]),
    Obj([all |-> Arr(<<Nowhere, LayerGt("dg", 50)>>)]),
    Obj([all |-> Arr(<<FirstTwo, LayerGt("dg", 50)>>)]),
    Obj([all |-> Arr(<<LayerGt("c5", 40), Obj([not |-> LayerGt("d2", 50)])>>)]) }
GateSpecs ==
  { [world |-> Undef, tiles |-> TilesDecl, layers |-> l, ops |-> Arr(<<Paint(g, "w")>>)] :
      l \in {LayerEnv, GateLayers}, g \in GatePool }

InitGates ==
  /\ reference \in References
  /\ specRaw \in GateSpecs
  /\ spec = specRaw
  /\ predIn = Undef /\ cellIn = <<0, 0>> /\ answer = ""
  /\ call = NoCall /\ result = NoResult
  /\ outFile = FALSE /\ file = NoOutput
  /\ pc = "start"
  /\ err = ""
  /\ opIndex = 0
  /\ bgGrid = Unallocated
  /\ fgGrid = Unallocated
  /\ visiting = {}
  /\ sc = NoScatter
  /\ placements = <<>>
  /\ output = NoOutput
  /\ run = 1
  /\ prev = [pc |-> "", err |-> "", output |-> NoOutput, placements |-> <<>>]

NextGates ==
  \/ Start
  \/ OpPaint
  \/ Compose

SpecGates == InitGates /\ [][NextGates]_vars

(* ------------------------ stamp.scatter on its own --------------------- *)

\* stamp.scatter ops: prefabs that state no w, h or p, or state them out of
\* range; weights that add up to nothing; a gate that never holds; a prefab
\* as large as the grid; counts and attempt limits below their clamps or
\* left out.
ScatterPool ==
  { Scatter("b", Undef, Whole(3), Whole(4),
            <<Prefab(2, 1, Str("w"), Str("t"), 50), Prefab(1, 2, Null, Str("t"), 100)>>),
    Scatter("a", Undef, Whole(2), Whole(3), <<Obj([bg |-> Str("r")])>>),
    Scatter("s", Undef, Whole(2), Whole(3),
            <<Prefab(1, 1, Str("w"), Null, 0), Prefab(2, 1, Str("r"), Null, 0)>>),
    Scatter("k", Nowhere, Undef, Whole(5), <<Prefab(1, 1, Str("w"), Null, 100)>>),
    Scatter("a", Undef, Whole(3), Undef,
            <<Prefab(9, 9, Str("w"), Str("t"), 250)>>),
    Scatter("b", Undef, Whole(0), Whole(0), <<Prefab(1, 1, Str("r"), Null, 50)>>) }

ScatterLists == UNION {[1 .. n -> ScatterPool] : n \in 1 .. 2}

InitScatter ==
  /\ reference \in References
  /\ specRaw \in {SpecOf(l) : l \in ScatterLists}
  /\ spec = specRaw
  /\ predIn = Undef /\ cellIn = <<0, 0>> /\ answer = ""
  /\ call = NoCall /\ result = NoResult
  /\ outFile = FALSE /\ file = NoOutput
  /\ pc = "start"
  /\ err = ""
  /\ opIndex = 0
  /\ bgGrid = Unallocated
  /\ fgGrid = Unallocated
  /\ visiting = {}
  /\ sc = NoScatter
  /\ placements = <<>>
  /\ output = NoOutput
  /\ run = 1
  /\ prev = [pc |-> "", err |-> "", output |-> NoOutput, placements |-> <<>>]

NextScatter ==
  \/ Start
  \/ ScatterBegin
  \/ ScatterAttempt
  \/ ScatterEnd
  \/ Compose

SpecScatter == InitScatter /\ [][NextScatter]_vars

\* attempt < maxAttempts && placed < count
LoopGoesOn == pc = "scatter" /\ sc.attempt < sc.maxAttempts /\ sc.placed < sc.count
\* The attempt loop is a synchronous for loop: a round that can be made is
\* made, and the loop is left when its condition fails.  The last conjunct
\* is WF_vars(ScatterAttempt) with ENABLED <<ScatterAttempt>>_vars written
\* out: a round can be made exactly when LoopGoesOn holds, and every round
\* changes the attempt counter or ends the run.
FairScatter ==
  /\ SpecScatter
  /\ WF_vars(ScatterEnd)
  /\ ([]<>~LoopGoesOn \/ []<><<ScatterAttempt>>_vars)

(* ------------------------ Generate on the fallback ---------------------- *)

\* A document that states no tiles.
NoTiles == [SpecOf(<<>>) EXCEPT !.tiles = Undef]

\* Calls that take the fallback spec, or its tiles: the fetch returns no
\* document, or a document without tiles.
InitFallback ==
  /\ reference \in References
  /\ specRaw \in {NoDocument, NoTiles}
  /\ spec = specRaw
  /\ predIn = Undef /\ cellIn = <<0, 0>> /\ answer = ""
  /\ call = NoCall /\ result = NoResult
  /\ outFile = FALSE /\ file = NoOutput
  /\ pc = "start"
  /\ err = ""
  /\ opIndex = 0
  /\ bgGrid = Unallocated
  /\ fgGrid = Unallocated
  /\ visiting = {}
  /\ sc = NoScatter
  /\ placements = <<>>
  /\ output = NoOutput
  /\ run = 1
  /\ prev = [pc |-> "", err |-> "", output |-> NoOutput, placements |-> <<>>]

NextFallback ==
  \/ Start
  \/ OpPaint
  \/ ScatterBegin
  \/ ScatterAttempt
  \/ ScatterEnd
  \/ Compose

SpecFallback == InitFallback /\ [][NextFallback]_vars

(* ------------------------- two calls of Generate ----------------------- *)

\* What the caller of the call in progress gets from it: the object
\* returned, or what the file named by WORLD_ENGINE_OUTFILE holds.
delivered == IF outFile THEN file ELSE output

\* Generate is called a second time, with another reference and the same
\* document, before the caller of the first call has read its output.  The
\* two calls run in one process: the first call's synchronous part is over,
\* and what it left behind stays as it is.
SecondCall ==
  /\ pc \in {"done", "error"} /\ run = 1
  /\ prev' = [pc |-> pc, err |-> err, output |-> delivered, placements |-> placements]
  /\ run' = 2
  /\ reference' \in References \ {reference}
  /\ pc' = "start"
  /\ UNCHANGED <<specRaw, spec, err, opIndex, bgGrid, fgGrid, visiting, sc,
                 placements, output, predVars>>

\* The ops of the documents of two calls: their effect depends on the
\* reference.
TwoCallsPool ==
  { PaintFg(Obj([chance |-> Num(50)]), "w", Null),
    Paint(Obj([chance |-> Num(30), seed |-> Str("k")]), "r"),
    Paint(Obj([all |-> Arr(<<Obj([chance |-> Num(50)]),
                             Obj([chance |-> Num(250), seed |-> Str("k")])>>)]), "g"),
    Paint(Undef, "r"),
    Scatter("b", Undef, Whole(3), Whole(4),
            <<Prefab(2, 1, Str("w"), Str("t"), 50), Prefab(1, 2, Null, Str("t"), 100)>>) }

InitFiles ==
  /\ reference \in References
  /\ specRaw \in {SpecOf(l) : l \in UNION {[1 .. n -> TwoCallsPool] : n \in 1 .. 2}}
  /\ spec = specRaw
  /\ predIn = Undef /\ cellIn = <<0, 0>> /\ answer = ""
  /\ call = NoCall /\ result = NoResult
  /\ outFile \in BOOLEAN /\ file = NoOutput
  /\ pc = "start"
  /\ err = ""
  /\ opIndex = 0
  /\ bgGrid = Unallocated
  /\ fgGrid = Unallocated
  /\ visiting = {}
  /\ sc = NoScatter
  /\ placements = <<>>
  /\ output = NoOutput
  /\ run = 1
  /\ prev = [pc |-> "", err |-> "", output |-> NoOutput, placements |-> <<>>]

NextFiles ==
  \/ Start
  \/ OpPaint
  \/ ScatterBegin
  \/ ScatterAttempt
  \/ ScatterEnd
  \/ Compose
  \/ SecondCall

SpecFiles == InitFiles /\ [][NextFiles]_vars

(* ------------------------------ properties ------------------------------ *)

\* The ids the palette of the output declares.
DeclaredBg == {t.o.id : t \in {output.tiles.o.background.a[i] : i \in DOMAIN output.tiles.o.background.a}}
DeclaredFg == {t.o.id : t \in {output.tiles.o.foreground.a[i] : i \in DOMAIN output.tiles.o.foreground.a}}

\* C1: in every output Generate returns, every cell's background id is a
\* declared background id and its foreground id is null or a declared
\* foreground id.
IdIntegrity ==
  pc = "done" =>
    \A y \in 1 .. height : \A x \in 1 .. width :
      /\ output.area.cells[y][x][1] \in DeclaredBg
      /\ output.area.cells[y][x][2] \in DeclaredFg \cup {Null}

\* A run of a roads.grid or paint op and a scatter op returns an output with
\* a painted background, a foreground tile and a placed prefab.
IdIntegrityWitness ==
  /\ pc = "done" /\ placements # <<>>
  /\ \E y \in 1 .. height : \E x \in 1 .. width : output.area.cells[y][x][1] = Str("r")
  /\ \E y \in 1 .. height : \E x \in 1 .. width : output.area.cells[y][x][2] = Str("t")

\* The placements of the scatter op in progress, and their footprints.
Mine == {i \in DOMAIN placements : placements[i].op = opIndex}
FootprintOf(i) == Footprint(placements[i].x0, placements[i].y0, placements[i].w, placements[i].h)
PairwiseDisjoint == \A i, j \in Mine : i # j => FootprintOf(i) \cap FootprintOf(j) = {}

\* op.count as the op states it, where it is a number.
StatedCount == Get(curOp, "count")

\* C2 as stated: during and after the attempt loop of a stamp.scatter op
\* whose count is N, the footprints it placed are pairwise disjoint, it
\* placed at most N prefabs, and at most as many as it made attempts.
ScatterWithinStatedCount ==
  pc = "scatter" =>
    /\ PairwiseDisjoint
    /\ Cardinality(Mine) = sc.placed
    /\ IsFiniteNum(StatedCount) => sc.placed * Scale <= StatedCount.n
    /\ sc.placed <= sc.attempt

\* The count the op works with: op.count rounded down and clamped into
\* [1, 200000], and 200 when op.count is no finite number.
EffectiveCount ==
  IF IsFiniteNum(StatedCount)
  THEN Max2(1, Min2(200000, StatedCount.n \div Scale))
  ELSE 200

\* C2, amended: the footprints placed by a stamp.scatter op are pairwise
\* disjoint, it places at most as many prefabs as its effective count
\* (op.count clamped into [1, 200000]), and at most as many as it made
\* attempts.
ScatterNonOverlap ==
  pc = "scatter" =>
    /\ PairwiseDisjoint
    /\ Cardinality(Mine) = sc.placed
    /\ sc.placed <= EffectiveCount
    /\ sc.placed <= sc.attempt

\* A scatter op has placed two prefabs and had an attempt rejected.
ScatterNonOverlapWitness ==
  pc = "scatter" /\ sc.placed >= 2 /\ sc.attempt > sc.placed

\* Op number k (from 1) of the run: its kind, its gate at cell c, and
\* whether it writes the background of c.
OpKind(k) ==
  IF Truthy(runOps[k]) /\ TypeofObject(runOps[k])
  THEN StringOr(Get(runOps[k], "type"), "") ELSE "none"
GateHolds(k, c) ==
  predTrue(Get(runOps[k], "where"), c[1], c[2], runLayers, reference, {}).r = "T"
PaintMatches(k, c) ==
  OpKind(k) = "paint" /\ ~Nullish(Get(runOps[k], "bg")) /\ GateHolds(k, c)
StampsBg(k, c) ==
  \E i \in DOMAIN placements :
    /\ placements[i].op = k - 1
    /\ c \in FootprintOf(i)
    /\ ~Nullish(Get(scatterPrefabs(runOps[k])[placements[i].idx], "bg"))
WritesBg(k, c) ==
  \/ PaintMatches(k, c)
  \/ OpKind(k) = "roads.grid" /\ GateHolds(k, c) /\ (onV(runOps[k], c) \/ onH(runOps[k], c))
  \/ OpKind(k) = "stamp.scatter" /\ StampsBg(k, c)

\* Ops i < j are paints that both match cell c and give different ids.
PaintPair(i, j, c) ==
  /\ i < j /\ PaintMatches(i, c) /\ PaintMatches(j, c)
  /\ Get(runOps[i], "bg") # Get(runOps[j], "bg")

\* C3 as stated: for every pair of paint ops that both match a cell and give
\* different background ids, the returned grid holds the id of the later op
\* of the pair at that cell.
LaterPaintOfEveryPairWins ==
  pc = "done" =>
    \A i, j \in DOMAIN runOps : \A c \in Cells :
      PaintPair(i, j, c) => bgGrid[c] = Get(runOps[j], "bg")

\* C3, amended: for every pair of paint ops that both match a cell and give
\* different background ids, the returned grid holds the id of the later op
\* of the pair at that cell, unless an op further down the list has written
\* the cell's background after it.
LaterPaintWins ==
  pc = "done" =>
    \A i, j \in DOMAIN runOps : \A c \in Cells :
      PaintPair(i, j, c) /\ (\A k \in DOMAIN runOps : k > j => ~WritesBg(k, c))
        => bgGrid[c] = Get(runOps[j], "bg")

\* A run of two paints that match one cell with different ids has ended,
\* the cell holding the second paint's id.
LaterPaintWinsWitness ==
  /\ pc = "done"
  /\ \E i, j \in DOMAIN runOps : \E c \in Cells :
       PaintPair(i, j, c) /\ bgGrid[c] = Get(runOps[j], "bg")

\* The layers a combine layer names in its {ref} operands.
RefsOf(n) ==
  IF Get(Get(runLayers, n), "type") # Str("combine") THEN {}
  ELSE {KeyOf(Get(Get(Get(runLayers, n), o), "ref")) :
          o \in {q \in {"a", "b"} : Truthy(Get(Get(Get(runLayers, n), q), "ref"))}}

RECURSIVE ReachedFrom(_)
\* The layers reached from the layers S through {ref} operands.
ReachedFrom(S) ==
  IF UNION {RefsOf(m) : m \in S} \subseteq S THEN S
  ELSE ReachedFrom(S \cup UNION {RefsOf(m) : m \in S})

\* Layer n references itself, directly or transitively.
SelfReferencing(n) == n \in ReachedFrom(RefsOf(n))

\* C4 as stated: a run whose layers hold a combine layer that references
\* itself raises the layer-cycle error and never returns an output.
CycleAlwaysRaises ==
  (\E n \in DOMAIN runLayers.o : SelfReferencing(n)) => pc # "done"

\* The layer a layerGt, layerLt or layerBetween gate samples first.
SampledBy(where) ==
  IF Truthy(Get(where, "all")) \/ Truthy(Get(where, "any")) \/ Truthy(Get(where, "not"))
  THEN {}
  ELSE {KeyOf(ElemAt(Get(where, k), 1)) :
          k \in {q \in {"layerGt", "layerLt", "layerBetween"} :
                   Truthy(Get(where, q)) /\ Iterable(Get(where, q))}}

\* The op loop is at a paint or roads.grid op that passes its tile checks
\* and whose gate samples a self-referencing combine layer.
SamplesSelfReference ==
  /\ AtOp /\ IsObjectOp
  /\ \/ curType = "paint" /\ paintRefsOk(curOp, bgIds, fgIds)
     \/ curType = "roads.grid" /\ roadsRefsOk(curOp, bgIds, fgIds)
  /\ \E n \in SampledBy(Get(curOp, "where")) : SelfReferencing(n)

\* C4, amended: when the gate of an op samples a combine layer that
\* references itself, directly or transitively through {ref} operands, the
\* run raises the layer-cycle error and returns no output.  (A layer that
\* references itself and is never sampled raises nothing.)
SampledCycleRaises ==
  [][SamplesSelfReference =>
       pc' = "error" /\ err' = "LayerCycle" /\ output' = NoOutput]_vars

\* A run has ended in the layer-cycle error, without an output.
SampledCycleRaisesWitness ==
  pc = "error" /\ err = "LayerCycle" /\ output = NoOutput

\* C5: a second run on the same reference and an equal spec document ends
\* as the first did: the same error or the same output, cell for cell, and
\* the same scatter placements in the same order.
Deterministic ==
  run = 2 /\ pc \in {"done", "error"} =>
    /\ pc = prev.pc /\ err = prev.err
    /\ output = prev.output
    /\ placements = prev.placements

\* The second of two runs has returned an output, two prefabs placed.
DeterministicWitness ==
  run = 2 /\ pc = "done" /\ Len(placements) >= 2 /\ prev.pc = "done"

\* C6: the output's area.width and area.height are the run's grid size,
\* area.cells has height rows of width pairs, and cells[y][x] is the pair
\* [bgId, fgId or null] of column x of row y.
OutputShape ==
  pc = "done" =>
    /\ output.area.width = width /\ output.area.height = height
    /\ Len(output.area.cells) = height
    /\ \A y \in 1 .. height :
         /\ Len(output.area.cells[y]) = width
         /\ \A x \in 1 .. width :
              /\ output.area.cells[y][x] = <<bgGrid[<<x - 1, y - 1>>], fgGrid[<<x - 1, y - 1>>]>>
              /\ output.area.cells[y][x][1].t = "str"
              /\ output.area.cells[y][x][2].t \in {"str", "null"}

\* An output is returned whose column 1 of row 0 differs from its column 0
\* of row 1.
OutputShapeWitness ==
  pc = "done" /\ output.area.cells[1][2] # output.area.cells[2][1]

\* The type of an entry of the ops list is one of the three known kinds.
KnownType(op) ==
  Get(op, "type") \in {Str("paint"), Str("roads.grid"), Str("stamp.scatter")}

\* C7: a run whose ops list holds an entry whose type is not paint,
\* roads.grid or stamp.scatter fails; it never skips the entry and returns
\* an output.
NoEntrySkipped ==
  (\E k \in DOMAIN runOps : ~KnownType(runOps[k])) => pc # "done"

\* The id is given and is not a declared background id / not null or a
\* declared foreground id.
BadBg(id) == ~Nullish(id) /\ ~(id.t = "str" /\ id.s \in bgIds)
BadFg(id) == ~Nullish(id) /\ ~(id.t = "str" /\ id.s \in fgIds)

\* The op references a tile id that is not declared: a paint in bg or fg, a
\* roads.grid in bg or in the id of its intersection marker, a
\* stamp.scatter in the bg or fg of a prefab.
HasBadRef(op) ==
  /\ Truthy(op) /\ TypeofObject(op)
  /\ \/ /\ Get(op, "type") = Str("paint")
        /\ BadBg(Get(op, "bg")) \/ BadFg(Get(op, "fg"))
     \/ /\ Get(op, "type") = Str("roads.grid")
        /\ BadBg(Get(op, "bg")) \/ BadFg(Get(Get(op, "fgAtIntersections"), "id"))
     \/ /\ Get(op, "type") = Str("stamp.scatter")
        /\ \E i \in DOMAIN scatterPrefabs(op) :
             \/ BadBg(Get(scatterPrefabs(op)[i], "bg"))
             \/ BadFg(Get(scatterPrefabs(op)[i], "fg"))

\* C8: a run one of whose ops references an undeclared tile id returns no
\* output, and the step of the op that holds the bad reference ends the run
\* in an error with every grid cell as it was before the op.
BadReferenceAborts ==
  /\ []((\E k \in DOMAIN runOps : HasBadRef(runOps[k])) => pc # "done")
  /\ [][AtOp /\ HasBadRef(curOp) =>
          /\ pc' = "error" /\ output' = NoOutput
          /\ bgGrid' = bgGrid /\ fgGrid' = fgGrid]_vars

\* A run has ended in the unknown-tile error at its second op, the grid
\* holding what the first op painted.
BadReferenceAbortsWitness ==
  /\ pc = "error" /\ err = "UnknownTile" /\ opIndex = 1 /\ HasBadRef(curOp)
  /\ \E c \in Cells : bgGrid[c] # Str("g")

\* The predicate value has one of the recognised forms.
RecognisedKeys ==
  {"all", "any", "not", "layerGt", "layerLt", "layerBetween", "shape", "chance"}
Recognised(p) == p.t = "obj" /\ DOMAIN p.o \cap RecognisedKeys # {}

\* C9: predTrue answers true for an absent predicate (null, undefined) and
\* false for every present value that has none of the recognised forms.
FailClosed ==
  answer # "" =>
    /\ Nullish(predIn) => answer = "T"
    /\ ~Nullish(predIn) /\ ~Recognised(predIn) => answer = "F"

\* The predicate value carries a recognised key with a value of the wrong
\* shape: layerGt, layerLt or layerBetween that is no array starting with a
\* layer name, all or any that is no array.
Malformed(p) ==
  /\ p.t = "obj"
  /\ \/ \E k \in {"layerGt", "layerLt", "layerBetween"} \cap DOMAIN p.o :
          ~(p.o[k].t = "arr" /\ Len(p.o[k].a) >= 2 /\ p.o[k].a[1].t = "str")
     \/ \E k \in {"all", "any"} \cap DOMAIN p.o : p.o[k].t # "arr"

\* C10: predTrue answers false for a malformed predicate, and raises no
\* error.
MalformedIsFalse ==
  answer # "" /\ Malformed(predIn) => answer = "F"


\* The op number k (from 1) has just run to its end: the op loop has moved
\* from it to the next entry.
Completed(k) == pc = "ops" /\ opIndex = k - 1 /\ pc' = "ops" /\ opIndex' = k

\* The pair a paint op leaves at cell c, the cell holding <<bg, fg>> before.
PaintLeaves(op, bg, fg) ==
  << IF Get(op, "bg") \notin {Undef, Null} THEN Get(op, "bg") ELSE bg,
     IF Get(op, "fg") # Undef THEN Get(op, "fg") ELSE fg >>

\* C11: after a paint op, every cell where the predicate holds has the
\* background op.bg when bg is provided and its old background otherwise, and
\* the foreground op.fg when the fg key is present (an explicit null clears
\* it) and its old foreground otherwise; every cell where the predicate does
\* not hold keeps both its background and its foreground.
PaintEffect ==
  [][\A k \in DOMAIN runOps :
       Completed(k) /\ OpKind(k) = "paint" =>
         \A c \in Cells :
           <<bgGrid'[c], fgGrid'[c]>> =
             IF GateHolds(k, c) THEN PaintLeaves(runOps[k], bgGrid[c], fgGrid[c])
             ELSE <<bgGrid[c], fgGrid[c]>>]_vars

\* A second paint with an explicit fg: null has cleared the foreground the
\* first paint set at one cell, and left it at another its gate fails on.
PaintEffectWitness ==
  /\ pc = "ops" /\ opIndex = 2
  /\ OpKind(1) = "paint" /\ OpKind(2) = "paint"
  /\ Get(runOps[1], "fg") = Str("t") /\ Get(runOps[2], "fg") = Null
  /\ \E c \in Cells :
       GateHolds(1, c) /\ GateHolds(2, c) /\ fgGrid[c] = Null
       /\ bgGrid[c] = Get(runOps[2], "bg")
  /\ \E c \in Cells :
       GateHolds(1, c) /\ ~GateHolds(2, c) /\ fgGrid[c] = Str("t")
       /\ bgGrid[c] = Get(runOps[1], "bg")

\* A parameter of a roads.grid op as the spec document states it, in units
\* of 1/Scale; def when the document does not state it.
Stated(v, def) == IF v.t = "num" THEN v.n ELSE def * Scale
StatedOx(op) == Stated(At(roadsOrigin(op), 0), 0)
StatedOy(op) == Stated(At(roadsOrigin(op), 1), 0)

\* A stated parameter rounded down to a whole number and clamped.
Lowered(n, lo, hi) ==
  IF n \div Scale < lo THEN lo ELSE IF n \div Scale > hi THEN hi ELSE n \div Scale

\* Cell c is on a road of the grid with origin (ox, oy), spacing s and
\* thickness t, all in one unit u: the non-negative remainder is below t.
OnRoad(c, ox, oy, s, t, u) ==
  \/ (c[1] * u - ox) % s < t
  \/ (c[2] * u - oy) % s < t

\* The background a roads.grid op leaves at c when the road cells are those
\* of road(c).
RoadsLeaves(k, c, road) ==
  IF GateHolds(k, c) /\ road THEN Get(runOps[k], "bg") ELSE bgGrid[c]

\* C12 as stated: a roads.grid op with origin (ox,oy), spacing s and
\* thickness t as the op gives them (20, 2 and [0,0] when absent) sets the
\* background to op.bg at exactly the cells where the gate holds and
\* ((x-ox) mod s) < t or ((y-oy) mod s) < t, and leaves every other
\* background unchanged.
RoadsOnStatedGrid ==
  [][\A k \in DOMAIN runOps :
       Completed(k) /\ OpKind(k) = "roads.grid" =>
         \A c \in Cells :
           bgGrid'[c] =
             RoadsLeaves(k, c,
               OnRoad(c, StatedOx(runOps[k]), StatedOy(runOps[k]),
                      Stated(Get(runOps[k], "spacing"), 20),
                      Stated(Get(runOps[k], "thickness"), 2), Scale))]_vars

\* C12, amended: with ox, oy, s, t the op's origin, spacing and thickness
\* rounded down to whole numbers, s brought into [2,200] and t into [1,20]
\* (20, 2 and [0,0] when absent), a roads.grid op sets the background to
\* op.bg at exactly the cells where the gate holds and ((x-ox) mod s) < t or
\* ((y-oy) mod s) < t, the remainder non-negative, and leaves every other
\* background unchanged.
RoadsOnEffectiveGrid ==
  [][\A k \in DOMAIN runOps :
       Completed(k) /\ OpKind(k) = "roads.grid" =>
         \A c \in Cells :
           bgGrid'[c] =
             RoadsLeaves(k, c,
               OnRoad(c, Lowered(StatedOx(runOps[k]), -Billion, Billion),
                      Lowered(StatedOy(runOps[k]), -Billion, Billion),
                      Lowered(Stated(Get(runOps[k], "spacing"), 20), 2, 200),
                      Lowered(Stated(Get(runOps[k], "thickness"), 2), 1, 20), 1))]_vars

\* A roads.grid op of spacing 2 and thickness 1 with its origin right of
\* column 0 has run: column 0, one to the left of the origin, is off the
\* road in row 1 and keeps its background, column 1 is on it.
RoadsOnEffectiveGridWitness ==
  /\ pc = "ops" /\ opIndex = 1 /\ OpKind(1) = "roads.grid"
  /\ Get(runOps[1], "origin") = Arr(<<Whole(1), Whole(0)>>)
  /\ Get(runOps[1], "spacing") = Whole(2)
  /\ Get(runOps[1], "thickness") = Whole(1)
  /\ Get(runOps[1], "where") = Undef
  /\ bgGrid[<<0, 1>>] # Get(runOps[1], "bg")
  /\ bgGrid[<<1, 1>>] = Get(runOps[1], "bg")
  /\ bgGrid[<<0, 0>>] = Get(runOps[1], "bg")

\* A call of fn has returned.
Returned(fn) == call.fn = fn /\ result.done

\* The weights of the prefabs of the call add up to nothing.
ZeroWeights == \A i \in DOMAIN call.items : NumberOr0(Get(call.items[i], "p")) <= 0

\* The scan of the call, t -= weight; t <= 0, selects no prefab.
ScanExhausted ==
  /\ ~ZeroWeights
  /\ \A i \in DOMAIN call.items :
       ~DrawTimesLeq(rngStep(call.h), weightSum(call.items, Len(call.items)),
                     weightSum(call.items, i))

\* C13 as stated: when the prefab weights sum to zero the weighted choice
\* returns the last prefab of the list, and likewise when the
\* cumulative-weight scan ends without selecting a prefab.
ZeroWeightsPickLast ==
  Returned("pickWeighted") /\ (ZeroWeights \/ ScanExhausted) =>
    result.v.idx = Len(call.items)

\* C13, amended: when the prefab weights sum to zero the weighted choice
\* returns the first prefab of the list, without drawing a random number;
\* when the cumulative-weight scan ends without selecting a prefab it
\* returns the last.
ZeroWeightsPickFirst ==
  Returned("pickWeighted") =>
    /\ ZeroWeights => result.v.idx = 1 /\ result.v.h = call.h
    /\ ScanExhausted => result.v.idx = Len(call.items)

\* A choice among three prefabs of weight zero has returned the first.
ZeroWeightsPickFirstWitness ==
  /\ Returned("pickWeighted") /\ ZeroWeights /\ Len(call.items) = 3
  /\ result.v.idx = 1

\* The attempt the loop of the stamp.scatter op in progress makes next.
NextAttempt == drawAttempt(sc.rng, scatterPrefabs(curOp))

\* A round of the attempt loop has just ended without an error.
AttemptMade == pc = "scatter" /\ pc' = "scatter" /\ sc'.attempt = sc.attempt + 1

\* The gate holds at the center cell of attempt a and no cell of its
\* footprint is occupied.
Acceptable(a) ==
  /\ GateHolds(opIndex + 1, <<a.x0 + (a.w \div 2), a.y0 + (a.h \div 2)>>)
  /\ \A c \in Footprint(a.x0, a.y0, a.w, a.h) : sc.occ[c] = 0

\* Attempt a was accepted: the prefab's background (where it has one) is on
\* every footprint cell, its foreground (where it has one) on the center
\* cell only, every footprint cell is occupied and placed is one higher.
AcceptedEffect(a) ==
  /\ \A c \in Cells :
       /\ bgGrid'[c] = IF c \in Footprint(a.x0, a.y0, a.w, a.h) /\ Get(a.pf, "bg") # Null
                       THEN Get(a.pf, "bg") ELSE bgGrid[c]
       /\ fgGrid'[c] = IF c = <<a.x0 + (a.w \div 2), a.y0 + (a.h \div 2)>> /\ Get(a.pf, "fg") # Null
                       THEN Get(a.pf, "fg") ELSE fgGrid[c]
       /\ sc'.occ[c] = IF c \in Footprint(a.x0, a.y0, a.w, a.h) THEN 1 ELSE sc.occ[c]
  /\ sc'.placed = sc.placed + 1

\* The attempt was rejected: nothing but the attempt counter and the
\* generator has changed.
RejectedEffect ==
  /\ bgGrid' = bgGrid /\ fgGrid' = fgGrid
  /\ sc'.occ = sc.occ /\ sc'.placed = sc.placed

\* C14: a scatter attempt is accepted exactly when the gate holds at the
\* prefab's center cell (x0 + floor(w/2), y0 + floor(h/2)) and no cell of
\* its footprint is occupied; an accepted attempt sets the prefab's
\* background on every footprint cell and its foreground at the center cell
\* only, marks every footprint cell occupied and adds one to placed; a
\* rejected attempt leaves both grids, the occupancy map and placed as they
\* were.
AttemptEffect ==
  [][AttemptMade =>
       IF Acceptable(NextAttempt) THEN AcceptedEffect(NextAttempt) ELSE RejectedEffect]_vars

\* The first attempt of a scatter op placed a prefab of two cells, both now
\* occupied and no other, and its second attempt was rejected.
AttemptEffectWitness ==
  /\ pc = "scatter" /\ sc.attempt = 2 /\ sc.placed = 1
  /\ \E i \in DOMAIN placements :
       /\ placements[i].op = opIndex /\ placements[i].attempt = 0
       /\ placements[i].w * placements[i].h = 2
       /\ {c \in Cells : sc.occ[c] = 1} = FootprintOf(i)

\* C15: for every prefab, its sides brought into [1, grid side] by the
\* validation loop, and every draw of the generator, the top-left cell drawn
\* by stamp.scatter puts the whole footprint, its center cell included,
\* inside the grid: 0 <= x0, x0 + w <= width, 0 <= y0, y0 + h <= height.
FootprintInsideGrid ==
  Returned("position") =>
    /\ result.v.w >= 1 /\ result.v.h >= 1
    /\ 0 <= result.v.x0 /\ result.v.x0 + result.v.w <= width
    /\ 0 <= result.v.y0 /\ result.v.y0 + result.v.h <= height
    /\ Footprint(result.v.x0, result.v.y0, result.v.w, result.v.h) \subseteq Cells
    /\ <<result.v.cx, result.v.cy>> \in Footprint(result.v.x0, result.v.y0, result.v.w, result.v.h)

\* The highest draw has put a prefab one cell wide in the last column, and a
\* prefab as high as the grid in row 0.
FootprintInsideGridWitness ==
  /\ Returned("position") /\ call.hx = <<Half - 1, Half - 1>> /\ call.hy = call.hx
  /\ result.v.w = 1 /\ result.v.x0 = width - 1
  /\ result.v.h = height /\ result.v.y0 = 0

\* The numbers of layers and of ops of the spec handed to the run.
LayerCount == Cardinality(DOMAIN layersOf(specRaw).o)
OpCount == Len(opsOf(specRaw))

\* C16: a run on a spec of more than 128 layers or more than 256 ops never
\* gets to its ops: it ends in an error with no op executed, no grid
\* written and no output, however many entries lie within the limits; a run
\* on a spec of exactly 128 layers and exactly 256 ops raises no error and
\* returns after its 256th op.
LimitsEnforced ==
  /\ LayerCount > 128 \/ OpCount > 256 =>
       /\ pc \in {"start", "error"}
       /\ opIndex = 0 /\ bgGrid = Unallocated /\ fgGrid = Unallocated
       /\ output = NoOutput
       /\ pc = "error" => err \in {"TooManyLayers", "TooManyOps"}
  /\ LayerCount = 128 /\ OpCount = 256 =>
       /\ pc # "error"
       /\ pc = "done" => opIndex = 256 /\ \A c \in Cells : bgGrid[c] = Str("r")

\* A run on a spec of exactly 128 layers and 256 ops has returned, its last
\* op applied.
LimitsEnforcedWitness ==
  /\ pc = "done" /\ LayerCount = 128 /\ OpCount = 256
  /\ opIndex = 256 /\ output # NoOutput
  /\ \A c \in Cells : bgGrid[c] = Str("r")

\* layers has an entry for the name n.
Defined(n) == Truthy(Get(runLayers, n))

\* The layer comparison of the predicate p, if it is one: its key.
LayerKeyOf(p) ==
  IF Truthy(Get(p, "layerGt")) THEN "layerGt"
  ELSE IF Truthy(Get(p, "layerLt")) THEN "layerLt"
  ELSE IF Truthy(Get(p, "layerBetween")) THEN "layerBetween" ELSE ""

\* The elements of the list a predicate holds under key k.
Listed(p, k) == IF Get(p, k).t = "arr" THEN Get(p, k).a ELSE <<>>

RECURSIVE NamesIn(_)
\* The layer names the predicate p holds, at any depth.
NamesIn(p) ==
  IF p.t # "obj" THEN {}
  ELSE UNION {NamesIn(Listed(p, "all")[i]) : i \in DOMAIN Listed(p, "all")}
       \cup UNION {NamesIn(Listed(p, "any")[i]) : i \in DOMAIN Listed(p, "any")}
       \cup NamesIn(Get(p, "not"))
       \cup {KeyOf(ElemAt(Get(p, k), 1)) :
               k \in {q \in {"layerGt", "layerLt", "layerBetween"} :
                        Truthy(Get(p, q)) /\ Iterable(Get(p, q))}}

\* A predicate of an op, or an operand of a combine layer, names a layer
\* that is not defined.
NamesUndefinedLayer ==
  \/ \E k \in DOMAIN runOps : \E n \in NamesIn(Get(runOps[k], "where")) : ~Defined(n)
  \/ \E n \in DOMAIN runLayers.o : \E m \in RefsOf(n) : ~Defined(m)

\* C17 as stated: a run in which a predicate of an op or an operand of a
\* combine layer names a layer that is not defined fails: it never returns
\* an output.
UndefinedNameIsFatal == NamesUndefinedLayer => pc # "done"

\* The name a {ref} operand o of the combine layer n gives, "" for none.
OperandRef(n, o) ==
  IF Truthy(Get(Get(Get(runLayers, n), o), "ref"))
  THEN KeyOf(Get(Get(Get(runLayers, n), o), "ref")) ELSE ""

RECURSIVE LayerHitsUndefined(_, _, _)
\* Sampling the layer n at cell c, vis in progress, comes to sample a name
\* that is not defined before anything else goes wrong.
LayerHitsUndefined(n, c, vis) ==
  IF ~Defined(n) THEN TRUE
  ELSE IF Get(Get(runLayers, n), "type") # Str("combine") \/ <<n, c[1], c[2]>> \in vis
  THEN FALSE
  ELSE \/ /\ OperandRef(n, "a") # ""
          /\ LayerHitsUndefined(OperandRef(n, "a"), c, vis \cup {<<n, c[1], c[2]>>})
       \/ /\ OperandRef(n, "a") # "" =>
               sampleLayer(runLayers, reference, OperandRef(n, "a"), c[1], c[2],
                           vis \cup {<<n, c[1], c[2]>>}).err = ""
          /\ OperandRef(n, "b") # ""
          /\ LayerHitsUndefined(OperandRef(n, "b"), c, vis \cup {<<n, c[1], c[2]>>})

\* What the predicate p answers at cell c.
AnswerAt(p, c) == predTrue(p, c[1], c[2], runLayers, reference, {}).r

RECURSIVE PredHitsUndefined(_, _)
\* Evaluating the predicate p at cell c comes to sample a name that is not
\* defined: in a layer comparison, behind a not, or in an element of all /
\* any that no earlier element has decided.
PredHitsUndefined(p, c) ==
  IF ~Truthy(p) THEN FALSE
  ELSE IF Truthy(Get(p, "all"))
  THEN \E i \in DOMAIN Listed(p, "all") :
         /\ PredHitsUndefined(Listed(p, "all")[i], c)
         /\ \A j \in 1 .. i - 1 : AnswerAt(Listed(p, "all")[j], c) = "T"
  ELSE IF Truthy(Get(p, "any"))
  THEN \E i \in DOMAIN Listed(p, "any") :
         /\ PredHitsUndefined(Listed(p, "any")[i], c)
         /\ \A j \in 1 .. i - 1 : AnswerAt(Listed(p, "any")[j], c) = "F"
  ELSE IF Truthy(Get(p, "not")) THEN PredHitsUndefined(Get(p, "not"), c)
  ELSE /\ LayerKeyOf(p) # ""
       /\ Iterable(Get(p, LayerKeyOf(p)))
       /\ LayerHitsUndefined(KeyOf(ElemAt(Get(p, LayerKeyOf(p)), 1)), c, {})

\* The op loop is at a paint that passes its tile checks and whose gate, at
\* the first cell where it raises anything, comes to sample an undefined
\* name.
SamplesUndefinedLayer ==
  /\ AtOp /\ IsObjectOp /\ curType = "paint" /\ paintRefsOk(curOp, bgIds, fgIds)
  /\ \E c \in Cells :
       /\ PredHitsUndefined(Get(curOp, "where"), c)
       /\ \A d \in Cells : Ord(d) < Ord(c) => AnswerAt(Get(curOp, "where"), d) \in {"T", "F"}

\* C17, amended: whenever the evaluation of an op's predicate comes to
\* sample a layer name that layers has no entry for, named by a layer
\* comparison that is evaluated or by a {ref} operand of a combine layer
\* that is sampled, the run fails with the unknown-layer error and returns
\* no output.  (A name behind an element of all / any that an earlier
\* element decides, or in a layer that is never sampled, raises nothing.)
UndefinedSampleIsFatal ==
  [][SamplesUndefinedLayer =>
       pc' = "error" /\ err' = "UnknownLayer" /\ output' = NoOutput]_vars

\* A paint gated by any: [shape, layerGt on an undefined name] has painted
\* the cells of the shape and failed with the unknown-layer error at the
\* first cell outside it.
UndefinedSampleIsFatalWitness ==
  /\ pc = "error" /\ err = "UnknownLayer" /\ output = NoOutput
  /\ Truthy(Get(Get(curOp, "where"), "any"))
  /\ bgGrid[<<0, 0>>] = Str("w") /\ bgGrid[<<1, 0>>] = Str("w")
  /\ bgGrid[<<2, 0>>] # Str("w")

\* C18: every value sampleLayer returns lies in [0,1], whatever the layer
\* type, the op of a combine layer and its parameter t, and the cell.
SampleInUnitRange ==
  Returned("sampleLayer") /\ result.v.err = "" =>
    result.v.v >= 0 /\ result.v.v <= Scale

\* The combine layer the call samples, its operands and its parameter.
Sampled == Get(call.layers, call.name)
SampledOp == Get(Sampled, "op")
SampledA == clamp01(NumberOr0(Get(Get(Sampled, "a"), "const")))
SampledB == clamp01(NumberOr0(Get(Get(Sampled, "b"), "const")))
SampledT == Get(Sampled, "t")

\* t is supplied, as a number in [0,1].
SuppliedT == SampledT.t = "num" /\ SampledT.n >= 0 /\ SampledT.n <= Scale

\* C19: a combine layer with op threshold returns 1 when its operand a is
\* at least t and 0 otherwise, for every supplied t in [0,1], and steps at
\* 0.5 when t is not supplied; a combine layer with op lerp returns
\* a + (b - a) * t for every supplied t in [0,1].
StepsAtSuppliedT ==
  Returned("sampleLayer") /\ Get(Sampled, "type") = Str("combine") =>
    /\ SampledOp = Str("threshold") /\ SuppliedT =>
         result.v.v = IF SampledA >= SampledT.n THEN Scale ELSE 0
    /\ SampledOp = Str("threshold") /\ SampledT = Undef =>
         result.v.v = IF SampledA >= Scale \div 2 THEN Scale ELSE 0
    /\ SampledOp = Str("lerp") /\ SuppliedT =>
         result.v.v = SampledA + ((SampledB - SampledA) * SampledT.n) \div Scale

\* The sides of the rect of the call, in units of 1/Scale.
RectX == Get(call.shape, "x").n
RectY == Get(call.shape, "y").n
RectW == Get(call.shape, "w").n
RectH == Get(call.shape, "h").n

\* C20 as stated: shapeContains for a rect {x, y, w, h} is true at (px, py)
\* exactly when x <= px < x + w and y <= py < y + h, and so false everywhere
\* when w <= 0 or h <= 0.
RectIsHalfOpenBox ==
  Returned("shapeContains") =>
    result.v = /\ RectW > 0 /\ RectH > 0
               /\ RectX <= call.x * Scale /\ call.x * Scale < RectX + RectW
               /\ RectY <= call.y * Scale /\ call.y * Scale < RectY + RectH

\* C20, amended: with x, y, w, h rounded down to whole numbers,
\* shapeContains for a rect {x, y, w, h} is true at (px, py) exactly when
\* x <= px < x + w and y <= py < y + h, and so false everywhere when
\* w <= 0 or h <= 0.
RectIsHalfOpenBoxOfFloors ==
  Returned("shapeContains") =>
    result.v = /\ RectW \div Scale > 0 /\ RectH \div Scale > 0
               /\ RectX \div Scale <= call.x /\ call.x < (RectX \div Scale) + (RectW \div Scale)
               /\ RectY \div Scale <= call.y /\ call.y < (RectY \div Scale) + (RectH \div Scale)

\* The test has answered true at (9, 9) of the rect {x: 0, y: 0, w: 10,
\* h: 10}.
RectIsHalfOpenBoxOfFloorsWitness ==
  /\ Returned("shapeContains") /\ result.v
  /\ call.shape = Obj([kind |-> Str("rect"), x |-> Whole(0), y |-> Whole(0),
                       w |-> Whole(10), h |-> Whole(10)])
  /\ call.x = 9 /\ call.y = 9

(* ------------------------------ C21 ------------------------------------ *)

\* A prefab with its w, h and p left out of the comparison.
SidesAndWeightApart(pf) == ObjSet(ObjSet(ObjSet(pf, "w", Undef), "h", Undef), "p", Undef)

\* Prefab now is prefab was, but for w, h and p, each of them either as it
\* was or as the validation loop writes it: the clamped sides, the weight
\* clamped to [0, 1].
PrefabAsNormalised(was, now) ==
  /\ SidesAndWeightApart(now) = SidesAndWeightApart(was)
  /\ DOMAIN now.o \subseteq DOMAIN was.o \cup {"w", "h", "p"}
  /\ Get(now, "w") \in {Get(was, "w"), Whole(safeInt(Get(was, "w"), 1, 1, width))}
  /\ Get(now, "h") \in {Get(was, "h"), Whole(safeInt(Get(was, "h"), 1, 1, height))}
  /\ Get(now, "p") \in {Get(was, "p"), Num(clamp01(NumberOr0(pOrOne(was))))}

\* Op now is op was, but for the normalisation of its prefabs.
OpAsNormalised(was, now) ==
  \/ now = was
  \/ /\ Get(was, "type") = Str("stamp.scatter")
     /\ ObjSet(now, "prefabs", Undef) = ObjSet(was, "prefabs", Undef)
     /\ Len(Get(now, "prefabs").a) = Len(Get(was, "prefabs").a)
     /\ \A j \in DOMAIN Get(was, "prefabs").a :
          PrefabAsNormalised(Get(was, "prefabs").a[j], Get(now, "prefabs").a[j])

\* C21 (as amended): once validation has completed, a run does not modify
\* the input spec other than by normalising in place the w, h and p of the
\* prefabs of its stamp.scatter ops (foreground symbols, which the model does
\* not carry, apart): tiles and layers are what they were, and so is every
\* op but for those three properties of its prefabs.
InputKeptButPrefabSizes ==
  pc # "start" =>
    /\ spec.tiles = specRaw.tiles
    /\ spec.layers = specRaw.layers
    /\ Len(spec.ops.a) = Len(specRaw.ops.a)
    /\ \A i \in DOMAIN specRaw.ops.a : OpAsNormalised(specRaw.ops.a[i], spec.ops.a[i])

\* A run that has normalised a prefab: the spec's ops are no longer the
\* input's.
InputKeptButPrefabSizesWitness ==
  /\ pc = "done"
  /\ spec.ops # specRaw.ops

\* C21 (as stated): layers, ops and prefab definitions are the same after
\* the run as before it.
InputKept ==
  pc # "start" => spec.layers = specRaw.layers /\ spec.ops = specRaw.ops

(* ------------------------------ C22 ------------------------------------ *)

\* C22: two calls of Generate share no mutable state, so the output of the
\* first call is the output it produces when run alone, whatever the second
\* call does: what the first call's caller gets, the object returned to it or
\* the contents of the file named by WORLD_ENGINE_OUTFILE, is what the first
\* call composed.
FirstOutputStands ==
  (run = 2 /\ prev.pc = "done") =>
     (IF outFile THEN file ELSE prev.output) = prev.output

(* ------------------------------ C23 ------------------------------------ *)

\* The tiles of a kind in the palette of the call.
TilesOfKind(kind) == Get(call.tiles, kind).a

\* Two tiles of the kind share an id.
SharesId(kind) ==
  \E i, j \in DOMAIN TilesOfKind(kind) :
     i # j /\ Get(TilesOfKind(kind)[i], "id") = Get(TilesOfKind(kind)[j], "id")

\* The id pattern as the spec words it: a lowercase letter or a digit first,
\* then letters of that case, digits, "_" or "-", 16 characters at most.
FitsIdPattern(c) ==
  /\ Len(c) \in 1 .. 16
  /\ \A i \in DOMAIN c :
       \/ c[i] \in 97 .. 122
       \/ c[i] \in 48 .. 57
       \/ i > 1 /\ c[i] \in {45, 95}

\* A tile of the kind has an id that is out of the pattern.
HasBadId(kind) ==
  \E i \in DOMAIN TilesOfKind(kind) :
     LET id == Get(TilesOfKind(kind)[i], "id")
     IN id.t # "str" \/ ~FitsIdPattern(StrCodes(id.s))

\* The palette has both lists, the background one not empty, every tile
\* being a tile in all but its id.
WellFormedButIds ==
  /\ Get(call.tiles, "background").t = "arr" /\ Get(call.tiles, "foreground").t = "arr"
  /\ TilesOfKind("background") # <<>>
  /\ \A kind \in {"background", "foreground"} : \A i \in DOMAIN TilesOfKind(kind) :
       /\ TilesOfKind(kind)[i].t = "obj"
       /\ Get(TilesOfKind(kind)[i], "color") \in {Str("#101010"), Str("#f0f0f0")}

\* C23: tile validation fails when two tiles of a kind share an id or an id
\* is out of the id pattern, and a palette with neither fault is accepted
\* though a background tile and a foreground tile share an id.
TileIdsValidated ==
  (Returned("validateTiles") /\ WellFormedButIds) =>
     (result.v # "" <=>
        \E kind \in {"background", "foreground"} : SharesId(kind) \/ HasBadId(kind))

\* validateTiles has accepted a palette in which a background tile and a
\* foreground tile share an id.
TileIdsValidatedWitness ==
  /\ Returned("validateTiles") /\ WellFormedButIds
  /\ result.v = ""
  /\ \E i \in DOMAIN TilesOfKind("background"), j \in DOMAIN TilesOfKind("foreground") :
       Get(TilesOfKind("background")[i], "id") = Get(TilesOfKind("foreground")[j], "id")

(* ------------------------------ C24 ------------------------------------ *)

\* The probability of a chance predicate, brought into [0, 1].
ClampedChance(pred) ==
  IF Get(pred, "chance").n < 0 THEN 0
  ELSE IF Get(pred, "chance").n > Scale THEN Scale ELSE Get(pred, "chance").n

\* The sub-seed of a chance predicate, empty when it states none.
SubSeed(pred) == IF Get(pred, "seed") = Undef THEN "" ELSE Get(pred, "seed").s

\* The truth value of a chance predicate at a cell as a function of the run
\* seed, the sub-seed, the cell and the clamped probability alone: the first
\* number of the generator seeded with them, compared with the probability.
ChanceAt(seed, sub, c, p) ==
  DrawLess(rngStep(xfnv1a(StrCodes(seed) \o PipeChance \o StrCodes(sub) \o Pipe
                            \o Digits(c[1]) \o Comma \o Digits(c[2]))), p)

\* A gate made of chance predicates: one of them, or all: [...] of several.
ChanceGate(where) ==
  \/ Get(where, "chance") # Undef
  \/ Get(where, "all") # Undef

ChanceGateAt(where, c) ==
  IF Get(where, "chance") # Undef
  THEN ChanceAt(reference, SubSeed(where), c, ClampedChance(where))
  ELSE \A i \in DOMAIN Get(where, "all").a :
         ChanceAt(reference, SubSeed(Get(where, "all").a[i]), c,
                  ClampedChance(Get(where, "all").a[i]))

\* C24: the truth value of a chance predicate at a cell is that function of
\* (run seed, sub-seed, x, y, clamped probability), whatever ops, cells and
\* predicates were evaluated before it, in the first call or the second, and
\* evaluating it leaves the random stream of stamp.scatter where it was: a
\* paint gated by chance predicates writes exactly the cells the function
\* selects.
ChanceIsPure ==
  [][\A k \in DOMAIN runOps :
       (Completed(k) /\ OpKind(k) = "paint" /\ ChanceGate(Get(runOps[k], "where"))) =>
         /\ \A c \in Cells :
              <<bgGrid'[c], fgGrid'[c]>> =
                IF ChanceGateAt(Get(runOps[k], "where"), c)
                THEN PaintLeaves(runOps[k], bgGrid[c], fgGrid[c])
                ELSE <<bgGrid[c], fgGrid[c]>>
         /\ sc' = sc]_vars

\* In the second call, a paint gated by a chance predicate has run after a
\* stamp.scatter op that drew from its stream and placed prefabs; the gate
\* held at one cell and failed at another.
ChanceIsPureWitness ==
  /\ run = 2 /\ pc = "ops" /\ opIndex = 2
  /\ OpKind(1) = "stamp.scatter" /\ placements # <<>>
  /\ OpKind(2) = "paint" /\ Get(Get(runOps[2], "where"), "chance") # Undef
  /\ \E c, d \in Cells :
       /\ ChanceGateAt(Get(runOps[2], "where"), c)
       /\ ~ChanceGateAt(Get(runOps[2], "where"), d)

(* ------------------------------ C25 ------------------------------------ *)

\* C25: in the weighted choice a prefab of weight 0 is never selected when
\* another prefab has a positive weight, whatever number in [0, 1) the
\* generator gives, 0 included.
ZeroWeightNeverPicked ==
  (Returned("pickWeighted") /\ \E i \in DOMAIN call.items : weightOf(call.items[i]) > 0) =>
     weightOf(call.items[result.v.idx]) > 0

(* ------------------------------ C26 ------------------------------------ *)

\* The layers a combine layer names in its operands.
NamedBy(layers, n) ==
  IF Get(Get(layers, n), "type") # Str("combine") THEN {}
  ELSE {m \in DOMAIN layers.o :
          \E o \in {"a", "b"} : Get(Get(Get(layers, n), o), "ref") = Str(m)}

RECURSIVE ReachedIn(_, _, _)
\* The layers reached from those of S in k steps or less along the operands.
ReachedIn(layers, S, k) ==
  IF k = 0 THEN S
  ELSE ReachedIn(layers, S \cup UNION {NamedBy(layers, n) : n \in S}, k - 1)

\* No layer is reached from its own operands.
Acyclic(layers) ==
  \A n \in DOMAIN layers.o :
     n \notin ReachedIn(layers, NamedBy(layers, n), Cardinality(DOMAIN layers.o))

\* C26: a sampleLayer call that returns normally leaves the in-progress set
\* exactly as it found it, and on an acyclic layer graph, started with no
\* sample in progress, it never raises a layer-cycle error, however many
\* times a layer is named.
VisitingRestored ==
  Returned("sampleLayer") =>
    /\ result.v.err = "" => result.v.vis = call.vis
    /\ (Acyclic(call.layers) /\ call.vis = {}) => result.v.err # "LayerCycle"

\* A sample of top, which reaches sh along four paths, has returned a value
\* with other samples in progress, and left them as they were.
VisitingRestoredWitness ==
  /\ Returned("sampleLayer") /\ call.name = "top" /\ Acyclic(call.layers)
  /\ call.vis # {}
  /\ result.v.err = "" /\ result.v.vis = call.vis

(* ------------------------------ C27 ------------------------------------ *)

\* C27: the occupancy map of a stamp.scatter op starts empty and is the op's
\* own: while the op runs, the cells marked in it are exactly the cells of
\* the footprints this op has placed, and none of an earlier op's; so an op
\* is free to place a prefab on cells an earlier op has covered.
OccupancyIsPerOp ==
  pc = "scatter" =>
    \A c \in Cells :
      sc.occ[c] = 1 <=>
        \E i \in DOMAIN placements : placements[i].op = opIndex /\ c \in FootprintOf(i)

\* The second stamp.scatter op of a run has placed a prefab on a cell that a
\* footprint of the first op covers.
OccupancyIsPerOpWitness ==
  /\ pc = "scatter" /\ opIndex = 1
  /\ \E i, j \in DOMAIN placements :
       /\ placements[i].op = 0 /\ placements[j].op = 1
       /\ FootprintOf(i) \cap FootprintOf(j) # {}

(* ------------------------------ C28 ------------------------------------ *)

\* The attempt loop is within its limits: count in [1, 200000], maxAttempts
\* in [1, 400000] and, where the op states none, 10 x count brought into
\* that range; no more attempts than maxAttempts, no more prefabs than count.
WithinLimits ==
  /\ sc.count \in 1 .. 200000
  /\ sc.maxAttempts \in 1 .. 400000
  /\ Get(curOp, "maxAttempts") = Undef =>
       sc.maxAttempts = IF 10 * sc.count > 400000 THEN 400000 ELSE 10 * sc.count
  /\ sc.attempt <= sc.maxAttempts
  /\ sc.placed <= sc.count

\* A round of the attempt loop is made.
RoundMade == pc = "scatter" /\ sc'.attempt = sc.attempt + 1

\* C28: the attempt loop always terminates.  It stays within its limits, it
\* makes a round only while fewer than maxAttempts rounds are made and fewer
\* than count prefabs are placed, and it is left in the end, whether or
\* not the gate ever holds and the grid has room.
ScatterTerminates ==
  /\ [](pc = "scatter" => WithinLimits)
  /\ [][RoundMade => sc.attempt < sc.maxAttempts /\ sc.placed < sc.count]_vars
  /\ (pc = "scatter") ~> (pc # "scatter")

\* Two loops have ended with all their attempts made and prefabs missing:
\* one whose gate holds nowhere, which placed nothing in 5 attempts, and one
\* whose first prefab filled the grid, which made the 30 attempts that
\* 10 x count allows.
ScatterTerminatesWitness ==
  /\ pc = "ops" /\ opIndex = 2
  /\ Get(runOps[1], "where") = Nowhere
  /\ \A i \in DOMAIN placements : placements[i].op = 1
  /\ Get(runOps[2], "maxAttempts") = Undef
  /\ sc.attempt = 30 /\ sc.placed = 1 /\ sc.count = 3
  /\ \A c \in Cells : sc.occ[c] = 1

RECURSIVE Draws(_, _)
\* The generator's state after n draws from the state h.
Draws(h, n) ==
  IF n = 0 THEN h ELSE CHOOSE r \in {Draws(h1, n - 1) : h1 \in {rngStep(h)}} : TRUE

\* The weights of the op's prefabs add up to nothing.
NoWeight(op) == weightSum(scatterPrefabs(op), Len(scatterPrefabs(op))) <= 0

\* The draws one attempt of the op makes: the prefab choice draws only when
\* some weight is positive; x and y always draw.
DrawsPerAttempt(op) == IF NoWeight(op) THEN 2 ELSE 3

\* A round of the attempt loop: one that is counted, or one whose gate throws.
RoundRun ==
  /\ pc = "scatter" /\ sc.attempt < sc.maxAttempts /\ sc.placed < sc.count
  /\ (sc'.attempt = sc.attempt + 1 \/ pc' = "error")

\* The round placed a prefab.
RoundAccepted == RoundRun /\ sc'.placed = sc.placed + 1

\* The placement the round recorded.
LastPlaced == placements'[Len(placements')]

\* The prefab a round picks with the draw that leaves the generator at h.
ChoiceAt(h, op) ==
  IF NoWeight(op) THEN 1
  ELSE pickAt(h, weightSum(scatterPrefabs(op), Len(scatterPrefabs(op))),
              scatterPrefabs(op)).idx

\* The draws are made in the order choice, x, y, the choice being left out
\* when the weights add up to nothing.
DrawnInOrder(d) ==
  /\ LastPlaced.idx = ChoiceAt(Draws(sc.rng, 1), curOp)
  /\ LastPlaced.x0 = DrawFloor(Draws(sc.rng, d - 1), width - LastPlaced.w + 1)
  /\ LastPlaced.y0 = DrawFloor(Draws(sc.rng, d), height - LastPlaced.h + 1)

\* C29 as stated: every attempt makes the same three draws, prefab choice
\* then x then y, whatever its outcome and whatever the weights.
ThreeDrawsPerAttempt ==
  [][RoundRun => /\ sc'.rng = Draws(sc.rng, 3)
                 /\ (RoundAccepted => DrawnInOrder(3))]_vars

\* C29: every attempt of an op draws from the op's stream in the same order,
\* prefab choice then x then y, and makes the same number of draws whether it
\* is accepted, turned down by the gate or by the occupancy map: three when
\* some prefab weight is positive, two (x then y) when the weights add up to
\* nothing.  So the stream after the n-th attempt is the op's stream after
\* n times that number of draws (compared here for the first four attempts).
DrawsPerAttemptFixed ==
  /\ [][RoundRun => /\ sc'.rng = Draws(sc.rng, DrawsPerAttempt(curOp))
                    /\ (RoundAccepted => DrawnInOrder(DrawsPerAttempt(curOp)))]_vars
  /\ [](pc = "scatter" /\ sc.attempt <= 4 =>
          \E h0 \in {scatterRng(reference, curOp)} :
          \E n \in {sc.attempt * DrawsPerAttempt(curOp)} : sc.rng = Draws(h0, n))

\* A weightless op after two accepted attempts, whose stream is where four
\* draws leave it and not where six would.
DrawsPerAttemptFixedWitness ==
  /\ pc = "scatter" /\ NoWeight(curOp)
  /\ sc.attempt = 2 /\ sc.placed = 2
  /\ \E h0 \in {scatterRng(reference, curOp)} :
        sc.rng = Draws(h0, 4) /\ sc.rng # Draws(h0, 6)

(* ------------------------------ C30 ------------------------------------ *)

\* The elements of the list l.
Elements(l) == {l[i] : i \in DOMAIN l}

RECURSIVE LayersOfPred(_)
\* The layers the predicate p names.
LayersOfPred(p) ==
  IF LayerKeyOf(p) # "" THEN {KeyOf(ElemAt(Get(p, LayerKeyOf(p)), 1))}
  ELSE IF Truthy(Get(p, "not")) THEN LayersOfPred(Get(p, "not"))
  ELSE UNION {LayersOfPred(q) : q \in Elements(Listed(p, "all")) \cup Elements(Listed(p, "any"))}

\* The gates of the run's ops and the prefabs of its stamp.scatter ops.
GatesOfOps == {Get(runOps[i], "where") : i \in DOMAIN runOps}
PrefabsOfOps == UNION {Elements(scatterPrefabs(runOps[i])) : i \in DOMAIN runOps}

\* The layer types sampleLayer evaluates.
SupportedTypes ==
  {Str("const"), Str("fbm"), Str("valueNoise"), Str("radialGradient"), Str("shape"),
   Str("combine")}

\* The tile ids a list of the palette declares.
DeclaredIn(kind) == {Get(t, "id") : t \in Elements(Get(spec.tiles, kind).a)}

\* The tile ids the ops and the prefabs state under the key k.
UsedUnder(k) ==
  {v \in {Get(runOps[i], k) : i \in DOMAIN runOps} \cup {Get(pf, k) : pf \in PrefabsOfOps} :
     ~Nullish(v)}

\* Cells of the 200 x 200 world of the code: its corners and a cell within.
ProbeCells == {<<0, 0>>, <<199, 0>>, <<0, 199>>, <<199, 199>>, <<120, 180>>}

\* Every gate of the run's ops gives an answer, and raises no error, at the
\* cell c.
GatesAnswerAt(c) ==
  \A g \in GatesOfOps : predTrue(g, c[1], c[2], runLayers, reference, {}).r \in {"T", "F"}

\* What the claim says of the spec a run works on.
WellFormedSpec ==
  /\ validateTiles(spec.tiles) = ""
  /\ Cardinality(DOMAIN runLayers.o) <= 128 /\ Len(runOps) <= 256
  /\ \A n \in UNION {LayersOfPred(g) : g \in GatesOfOps} :
       Defined(n) /\ Get(Get(runLayers, n), "type") \in SupportedTypes
  /\ Acyclic(runLayers)
  /\ UsedUnder("bg") \subseteq DeclaredIn("background")
  /\ UsedUnder("fg") \subseteq DeclaredIn("foreground")
  /\ \A c \in ProbeCells \cup Cells : GatesAnswerAt(c)

\* C30: Generate on the fallback spec raises no error, whatever the
\* reference: the fallback's tiles pass validateTiles (also when they stand
\* in for the tiles a document does not state), it has at most 128 layers
\* and 256 ops, every layer its predicates name is defined with a supported
\* type and no reference cycle, and every tile id its ops and prefabs use is
\* declared.
FallbackGenerates ==
  /\ pc # "error" /\ err = ""
  /\ pc = "ops" /\ opIndex = 0 =>
       /\ spec.tiles = fallbackTiles(reference)
       /\ validateTiles(spec.tiles) = ""
       /\ ~IsDocument(specRaw) =>
            /\ spec.layers = fallbackLayers /\ spec.ops = Arr(fallbackOps)
            /\ WellFormedSpec

\* A call whose fetch returned no document has validated the fallback's
\* tiles, run its six paint ops, the first of which covered the grid, and is
\* in the attempt loop of its scatter.
FallbackGeneratesWitness ==
  /\ pc = "scatter" /\ ~IsDocument(specRaw)
  /\ spec.tiles = fallbackTiles(reference)
  /\ opIndex + 1 = Len(fallbackOps)
  /\ sc.attempt = 5 /\ sc.maxAttempts = 120000
  /\ \A c \in Cells : bgGrid[c] = Str("bg0")
====
